---- MODULE Spec2Model ----
(***************************************************************************)
(* KoraScan sidecar: the Reclaim Engine (Reclaimer, lib/reclaimer as kept  *)
(* in src/src/lib/webhook-handler.ts:401-802), the State Store operations  *)
(* it calls (src/src/lib/database.ts) and the Discovery & Checkpoint       *)
(* Engine (Discoverer, src/src/lib/database.ts:789-1302).                  *)
(*                                                                         *)
(* Every `await` of the source is a point where other tasks and the chain  *)
(* may act, so an action of the model covers the code between two awaits   *)
(* whose interleaving matters; a promise the code does not await becomes a *)
(* pending write that lands at any later time.                             *)
(***************************************************************************)
EXTENDS Integers, Sequences, FiniteSets, TLC

VARIABLES
    \* ---- ledger and store, as the Reclaimer sees them ----
    chain,        \* account -> on-chain state (what getMultipleAccountsInfo returns)
    store,        \* account -> row of sponsored_accounts
    envSteps,     \* number of on-chain changes made by third parties so far
    breaker,      \* RECLAIM_CIRCUIT_BREAKER_SOL in lamports, 0 = disabled
    \* ---- one Reclaimer run ----
    rpc,          \* position of the run
    mode,         \* "eligible" (reclaimAllEligible) or "direct" (reclaimAccounts)
    dryRun,       \* this.dryRun
    whitelist,    \* this.whitelist
    ids,          \* pubkeyStrs
    fetchI,       \* i of batchFetchAccounts, 1-based
    results,      \* accountsWithInfo
    batchI,       \* i of reclaimAccounts, 1-based
    stepI,        \* position inside the current batch (audit loop / fallback loop)
    batchSig,     \* signature of the confirmed atomic batch
    acc,          \* success / failed / sol of the current fallback loop
    totals,       \* totalSuccess / totalFailed / totalSol
    ret,          \* what the last finished run returned
    pending,      \* un-awaited updateAccountStatus calls not yet applied
    \* ---- history of the current run (read by the properties only) ----
    submitted,    \* every mutation handed to sendAndConfirmTransaction
    batchLog,     \* every finished reclaimBatch call with what it returned
    startStatus,  \* stored status of each account when the run started
    fundedBefore, \* accounts funded before any closing mutation naming them was submitted
    observedNonZero, \* accounts whose re-fetch showed a non-zero token balance
    \* ---- the ledger's history of the operator and the provider serving it ----
    top,          \* number of transactions of the operator; the newest one is `top`
    failures,     \* getTransactionHistory calls the provider has failed so far
    \* ---- the store's scan_checkpoints row and what saveAccounts was given ----
    cp,           \* the operator's row of scan_checkpoints
    saved,        \* candidates handed to saveAccounts (verify-and-persist)
    \* ---- the process ----
    activeScans,  \* ACTIVE_SCANS
    pc,           \* position of each Scan call
    loc,          \* locals of each Scan call
    \* ---- history (read by the properties only) ----
    worked,       \* the call fetched a page, wrote the checkpoint or saved accounts
    arrivedBusy,  \* the call found the operator in ACTIVE_SCANS when it tested it
    lastFill,     \* how the most recent historical fill went
    \* ---- the sponsored_accounts table with its columns, and the clock ----
    table,        \* rows of sponsored_accounts: pubkey, status, last_checked
    clock,        \* Date.now()
    \* ---- history (read by the properties only) ----
    lastOp,       \* the most recent operation on the table
    sponsoredFunded, \* accounts handed to saveAccounts while holding tokens
    \* ---- the operator's wallet ----
    sweep,        \* what sweepProfitToTreasury did in the current run
    \* ---- the environment ----
    coolDown,     \* RECLAIM_COOL_DOWN_DAYS, 0 = disabled
    \* ---- one call of processTransaction ----
    tx,           \* the HeliusTransaction handed to it
    currentRent,  \* what the ledger asks for a 165-byte account
    cachedRent,   \* this.cachedRent, 0 = null
    extracted,    \* what processTransaction returned
    xpc,          \* position: the deposit is cached, then the transaction is processed
    hooked,       \* the inbound event handler has answered the delivery of tx
    persisted,    \* what it handed to batchUpsertAccounts
    \* ---- one account taken through the Verifier ----
    accountInfo,  \* what getMultipleAccountsInfo returned for it, decoded
    verdict,      \* the ReclaimableAccount the Analyzer returned for it, if any
    written,      \* the status the caller then wrote for it, "" = no write
    vpc,          \* position: fetched, analyzed, written
    \* ---- the polling loop of the monitor command ----
    cycles,       \* invocation of runCycle -> where it is, its batches, those settled
    armed,        \* setInterval(runCycle, intervalMs) has been called
    \* ---- the staleness refresh loop of updateInBackground ----
    wpc,          \* position: idle, loop, done
    batchesProcessed, \* the loop's counter
    lastBatch,    \* the accounts the latest refreshActiveAccounts read
    everSubmitted, \* the accounts submitted to the Verifier so far
    \* ---- one ledger read of fetchWithRetry and the handler of its caller ----
    answers,      \* what the provider answers to each attempt
    attempt,      \* the attempts made so far
    lastError,    \* the local of that name
    fetched,      \* running, or how the call ended: response, empty, thrown
    logged        \* what the catch block of the calling loop came to

rvars == <<chain, store, envSteps, breaker, rpc, mode, dryRun, whitelist, ids,
           fetchI, results, batchI, stepI, batchSig, acc, totals, ret,
           pending, submitted, batchLog, startStatus, fundedBefore,
           observedNonZero>>

svars == <<top, failures, cp, saved, activeScans, pc, loc, worked, arrivedBusy,
           lastFill>>

tvars == <<table, clock, lastOp, sponsoredFunded>>

pvars == <<sweep, coolDown>>

xvars == <<tx, currentRent, cachedRent, extracted, xpc, hooked, persisted>>

yvars == <<accountInfo, verdict, written, vpc>>

zvars == <<cycles, armed>>

wvars == <<wpc, batchesProcessed, lastBatch, everSubmitted>>

uvars == <<answers, attempt, lastError, fetched, logged>>

vars == <<rvars, svars, tvars, pvars, xvars, yvars, zvars, wvars, uvars>>

----------------------------------------------------------------------------
(* Bounds of the model *)

MaxEnvSteps == 1
BreakerLimit == 3
\* BATCH_SIZE (default 15) and FETCH_BATCH_SIZE (100), scaled to the three accounts
BATCH_SIZE == 2
FETCH_BATCH_SIZE == 2

Accounts == {"A1", "A2", "A3"}
Operator == "operator"
Stranger == "user"

\* info.lamports of an account: the deposit that closing it returns
Lamports(a) == CASE a = "A1" -> 3 [] a = "A2" -> 2 [] OTHER -> 1

Min(x, y) == IF x < y THEN x ELSE y

RECURSIVE SumLamports(_)
SumLamports(s) == IF s = <<>> THEN 0 ELSE Head(s).lamports + SumLamports(Tail(s))

Range(s) == {s[i] : i \in 1..Len(s)}
Pubkeys(s) == {s[i].pubkey : i \in 1..Len(s)}

\* The rows of a set of accounts in the order the store returns them (rowid
\* order: the order of insertion), which is also the order callers list them in
Index(a) == CASE a = "A1" -> 1 [] a = "A2" -> 2 [] OTHER -> 3
Listed(S) == CHOOSE s \in [1..Cardinality(S) -> S] :
                \A i, j \in 1..Cardinality(S) : i < j => Index(s[i]) < Index(s[j])

----------------------------------------------------------------------------
(* On-chain account states *)

Absent == [kind |-> "absent", amount |-> 0, closeAuthority |-> Stranger]
System == [kind |-> "system", amount |-> 0, closeAuthority |-> Stranger]
Token(amount, auth) == [kind |-> "token", amount |-> amount, closeAuthority |-> auth]

\* What the Verifier stores for an account in a given on-chain state
\* (rows are created by saveAccounts / the webhook and refreshed by refreshActiveAccounts)
Classified(c) ==
    IF c.kind = "token" /\ c.amount = 0
    THEN (IF c.closeAuthority = Operator THEN "reclaimable" ELSE "locked")
    ELSE "active"

Row(status) == [status |-> status, reclaimed_at |-> 0, reclaim_signature |-> 0]

\* getMultipleAccountsInfo: the snapshot of one account
Info(a) == [pubkey |-> a, kind |-> chain[a].kind, amount |-> chain[a].amount,
            closeAuthority |-> chain[a].closeAuthority, lamports |-> Lamports(a)]

\* The token program closes an account only when it is an empty token account
\* and the signer (the operator) is its close authority
Closable(a) ==
    /\ chain[a].kind = "token"
    /\ chain[a].amount = 0
    /\ chain[a].closeAuthority = Operator

----------------------------------------------------------------------------
(* State Store operations *)

\* updateAccountStatus(pubkey, status, reclaimedAt?, reclaimSignature?)
UpdateAccountStatus(s, pk, status, reclaimedAt, reclaimSignature) ==
    IF reclaimedAt # 0 /\ reclaimSignature # 0
    THEN [s EXCEPT ![pk] = [status |-> status, reclaimed_at |-> reclaimedAt,
                            reclaim_signature |-> reclaimSignature]]
    ELSE [s EXCEPT ![pk].status = status]

\* batchUpdateAccountMetadata(updates): status = COALESCE(?, status); "" is an
\* update without a status
BatchUpdateAccountMetadata(s, pks, status) ==
    [a \in Accounts |->
        IF a \in pks /\ status # "" THEN [s[a] EXCEPT !.status = status] ELSE s[a]]

\* getReclaimableAccounts(): every row whose status is reclaimable
GetReclaimableAccounts == {a \in Accounts : store[a].status = "reclaimable"}

----------------------------------------------------------------------------
(* Reclaimer: decisions *)

\* batchFetchAccounts without the whitelist test
SkipWhitelistedNever(wl, a) == FALSE

\* batchFetchAccounts: `if (this.whitelist.has(str)) continue`
SkipWhitelisted(wl, a) == a \in wl

\* batchFetchAccounts without the balance test
DoubleTapPassesAlways(info) == TRUE

\* batchFetchAccounts: the double-tap test on a fetched token account
\* (`decoded.amount > BigInt(0)` revives, anything else is pushed to results)
DoubleTapPasses(info) == ~(info.amount > 0)

\* reclaimBatch without the circuit breaker
BreakerTripsNever(potential, dry) == FALSE

\* reclaimBatch: the circuit breaker test
BreakerTrips(potential, dry) == breaker > 0 /\ potential > breaker /\ ~dry

\* The store update batchFetchAccounts makes for one fetched account
FetchStatus(info) ==
    CASE info.kind = "absent" -> "closed"
      [] info.kind = "token" /\ ~DoubleTapPasses(info) -> "active"
      [] info.kind = "token" -> ""
      [] OTHER -> "active"

KeepInResults(info) == info.kind = "token" /\ DoubleTapPasses(info)

RECURSIVE ApplyFetch(_, _)
ApplyFetch(s, infos) ==
    IF infos = <<>> THEN s
    ELSE LET i == Head(infos)
             st == FetchStatus(i)
         IN ApplyFetch(IF st = "" THEN s ELSE UpdateAccountStatus(s, i.pubkey, st, 0, 0),
                       Tail(infos))

CurrentBatch == SubSeq(results, batchI, Min(batchI + BATCH_SIZE - 1, Len(results)))

\* a fresh transaction signature, and Date.now()
NextSig == Len(submitted) + 1
Now == Len(submitted) + 1

Zero == [success |-> 0, failed |-> 0, sol |-> 0]
Plus(x, y) == [success |-> x.success + y.success, failed |-> x.failed + y.failed,
               sol |-> x.sol + y.sol]

----------------------------------------------------------------------------
(* Third parties acting on the ledger *)

TokenStates == {Token(n, auth) : n \in {0, 1}, auth \in {Operator, Stranger}}

\* A user funds, empties or closes an account, changes its close authority, or
\* the address comes to hold something that is no token account. (Changes no
\* run can observe, to an account it was not given or after it has ended, are
\* left out.)
ChainChanges ==
    /\ envSteps < MaxEnvSteps
    /\ rpc \notin {"idle", "done"}
    /\ \E a \in Range(ids), c \in TokenStates \cup {Absent, System} :
        /\ c # chain[a]
        /\ chain[a].kind = "token"
        /\ chain' = [chain EXCEPT ![a] = c]
        /\ fundedBefore' =
              IF /\ c.kind = "token" /\ c.amount > 0 /\ chain[a].amount = 0
                 /\ \A i \in 1..Len(submitted) : a \notin Pubkeys(submitted[i].entries)
              THEN fundedBefore \cup {a} ELSE fundedBefore
    /\ envSteps' = envSteps + 1
    /\ UNCHANGED <<store, breaker, rpc, mode, dryRun, whitelist, ids, fetchI, results,
                   batchI, stepI, batchSig, acc, totals, ret, pending,
                   submitted, batchLog, startStatus, observedNonZero>>

----------------------------------------------------------------------------
(* Reclaimer *)

\* the addresses the operator may have put on the whitelist
WhitelistCandidates == {"A2"}
Whitelists == SUBSET WhitelistCandidates

\* The constructor and the state common to the start of a run
StartRun(m, dry, wl, list) ==
    /\ rpc = "idle"
    /\ mode' = m
    /\ dryRun' = dry
    /\ whitelist' = wl
    /\ ids' = list
    /\ fetchI' = 1
    /\ results' = <<>>
    /\ batchI' = 1
    /\ stepI' = 1
    /\ batchSig' = 0
    /\ acc' = Zero
    /\ totals' = Zero
    /\ submitted' = <<>>
    /\ batchLog' = <<>>
    /\ startStatus' = [a \in Accounts |-> store[a].status]
    /\ UNCHANGED <<chain, store, envSteps, breaker, pending, fundedBefore,
                   observedNonZero>>

\* reclaimAllEligible: read the reclaimable rows, drop the whitelisted ones
\* (the cool-down filter reads closedAt, which getReclaimableAccounts never
\* sets, so it keeps every row), then reclaimAccounts(pubkeys)
EligibleFilter(wl, a) == ~(a \in wl)

ReclaimAllEligible ==
    \E dry \in BOOLEAN, wl \in Whitelists :
        LET eligible == {a \in GetReclaimableAccounts : EligibleFilter(wl, a)}
        IN /\ StartRun("eligible", dry, wl, Listed(eligible))
           /\ rpc' = IF eligible = {} THEN "sweep" ELSE "fetch"
           /\ UNCHANGED ret

\* reclaimAccounts(pubkeyStrs) called with a list of the caller's choice
ReclaimAccounts ==
    \E dry \in BOOLEAN, wl \in Whitelists, chosen \in SUBSET Accounts :
        /\ StartRun("direct", dry, wl, Listed(chosen))
        /\ rpc' = IF chosen = {} THEN "batch" ELSE "fetch"
        /\ UNCHANGED ret

FetchSlice == SubSeq(ids, fetchI, Min(fetchI + FETCH_BATCH_SIZE - 1, Len(ids)))
FetchKeys == SelectSeq(FetchSlice, LAMBDA a : ~SkipWhitelisted(whitelist, a))

AfterFetch ==
    /\ fetchI' = fetchI + FETCH_BATCH_SIZE
    /\ rpc' = IF fetchI + FETCH_BATCH_SIZE > Len(ids) THEN "batch" ELSE "fetch"

\* batchFetchAccounts, one round of getMultipleAccountsInfo and what follows it
BatchFetchAccounts ==
    /\ rpc = "fetch"
    /\ LET infos == [j \in 1..Len(FetchKeys) |-> Info(FetchKeys[j])]
       IN /\ results' = results \o SelectSeq(infos, KeepInResults)
          /\ store' = IF dryRun THEN store ELSE ApplyFetch(store, infos)
          /\ observedNonZero' = observedNonZero \cup
                {i.pubkey : i \in {x \in Range(infos) : x.kind = "token" /\ x.amount > 0}}
    /\ AfterFetch
    /\ UNCHANGED <<chain, envSteps, breaker, mode, dryRun, whitelist, ids, batchI,
                   stepI, batchSig, acc, totals, ret, pending, submitted,
                   batchLog, startStatus, fundedBefore>>

\* batchFetchAccounts, a round whose getMultipleAccountsInfo throws
BatchFetchFails ==
    /\ rpc = "fetch"
    /\ FetchKeys # <<>>
    /\ AfterFetch
    /\ UNCHANGED <<chain, store, envSteps, breaker, mode, dryRun, whitelist, ids,
                   results, batchI, stepI, batchSig, acc, totals, ret, pending,
                   submitted, batchLog, startStatus, fundedBefore, observedNonZero>>

InBatch == rpc = "batch" /\ batchI <= Len(results)
Potential == SumLamports(CurrentBatch)

\* reclaimBatch returns: the totals of reclaimAccounts move on to the next batch
BatchReturns(how, r) ==
    /\ totals' = Plus(totals, r)
    /\ batchLog' = Append(batchLog, [how |-> how, batch |-> CurrentBatch, result |-> r])
    /\ batchI' = batchI + BATCH_SIZE
    /\ rpc' = "batch"

\* reclaimBatch: the circuit breaker aborts the batch
BreakerAborts ==
    /\ InBatch
    /\ BreakerTrips(Potential, dryRun)
    /\ store' = BatchUpdateAccountMetadata(store, Pubkeys(CurrentBatch), "error")
    /\ BatchReturns("breaker", [success |-> 0, failed |-> Len(CurrentBatch), sol |-> 0])
    /\ UNCHANGED <<chain, envSteps, breaker, mode, dryRun, whitelist, ids, fetchI,
                   results, stepI, batchSig, acc, ret, pending, submitted,
                   startStatus, fundedBefore, observedNonZero>>

\* reclaimBatch: dry run
DryRunBatch ==
    /\ InBatch
    /\ ~BreakerTrips(Potential, dryRun)
    /\ dryRun
    /\ BatchReturns("dry", [success |-> Len(CurrentBatch), failed |-> 0, sol |-> Potential])
    /\ UNCHANGED <<chain, store, envSteps, breaker, mode, dryRun, whitelist, ids,
                   fetchI, results, stepI, batchSig, acc, ret, pending,
                   submitted, startStatus, fundedBefore, observedNonZero>>

Mutation(kind, entries, ok) ==
    [kind |-> kind, entries |-> entries, batch |-> CurrentBatch, sig |-> NextSig, ok |-> ok]

\* reclaimBatch: the atomic batch is submitted and confirmed
SubmitBatchConfirmed ==
    /\ InBatch
    /\ ~BreakerTrips(Potential, dryRun)
    /\ ~dryRun
    /\ \A a \in Pubkeys(CurrentBatch) : Closable(a)
    /\ submitted' = Append(submitted, Mutation("batch", CurrentBatch, TRUE))
    /\ chain' = [a \in Accounts |-> IF a \in Pubkeys(CurrentBatch) THEN Absent ELSE chain[a]]
    /\ batchSig' = NextSig
    /\ rpc' = "mark"
    /\ UNCHANGED <<store, envSteps, breaker, mode, dryRun, whitelist, ids, fetchI,
                   results, batchI, stepI, acc, totals, ret, pending, batchLog,
                   startStatus, fundedBefore, observedNonZero>>

\* reclaimBatch: the atomic batch is submitted and sendAndConfirmTransaction throws
SubmitBatchFails ==
    /\ InBatch
    /\ ~BreakerTrips(Potential, dryRun)
    /\ ~dryRun
    /\ submitted' = Append(submitted, Mutation("batch", CurrentBatch, FALSE))
    /\ rpc' = "single"
    /\ stepI' = 1
    /\ acc' = Zero
    /\ UNCHANGED <<chain, store, envSteps, breaker, mode, dryRun, whitelist, ids,
                   fetchI, results, batchI, batchSig, totals, ret, pending,
                   batchLog, startStatus, fundedBefore, observedNonZero>>

\* reclaimBatch after confirmation: await batchUpdateAccountMetadata(status 'reclaimed')
MarkReclaimed ==
    /\ rpc = "mark"
    /\ store' = BatchUpdateAccountMetadata(store, Pubkeys(CurrentBatch), "reclaimed")
    /\ rpc' = "audit"
    /\ stepI' = 1
    /\ UNCHANGED <<chain, envSteps, breaker, mode, dryRun, whitelist, ids, fetchI,
                   results, batchI, batchSig, acc, totals, ret, pending,
                   submitted, batchLog, startStatus, fundedBefore, observedNonZero>>

\* reclaimBatch, the "re-loop": updateAccountStatus(pk, 'reclaimed', Date.now(),
\* signature) is called without await, then batchUpdateAccountMetadata with the
\* amount alone is awaited; after the last account reclaimBatch returns
AuditAccount ==
    /\ rpc = "audit"
    /\ pending' = pending \cup
          {[pubkey |-> CurrentBatch[stepI].pubkey, at |-> Now, sig |-> batchSig]}
    /\ store' = BatchUpdateAccountMetadata(store, {CurrentBatch[stepI].pubkey}, "")
    /\ IF stepI < Len(CurrentBatch)
       THEN /\ stepI' = stepI + 1
            /\ UNCHANGED <<rpc, totals, batchLog, batchI>>
       ELSE /\ stepI' = 1
            /\ BatchReturns("confirmed", [success |-> Len(CurrentBatch), failed |-> 0,
                                          sol |-> Potential])
    /\ UNCHANGED <<chain, envSteps, breaker, mode, dryRun, whitelist, ids, fetchI,
                   results, batchSig, acc, ret, submitted, startStatus, fundedBefore,
                   observedNonZero>>

\* reclaimBatch after confirmation: the awaited batchUpdateAccountMetadata
\* rejects (the store is unreachable, or answers with an error that withRetry
\* does not retry); the catch block of reclaimBatch starts the fallback loop
MarkReclaimedFails ==
    /\ rpc = "mark"
    /\ rpc' = "single"
    /\ stepI' = 1
    /\ acc' = Zero
    /\ UNCHANGED <<chain, store, envSteps, breaker, mode, dryRun, whitelist, ids,
                   fetchI, results, batchI, batchSig, totals, ret, pending,
                   submitted, batchLog, startStatus, fundedBefore, observedNonZero>>

\* reclaimBatch, the "re-loop": updateAccountStatus has been called without
\* await, and the awaited write of the amount rejects; the catch block of
\* reclaimBatch starts the fallback loop
AuditAccountFails ==
    /\ rpc = "audit"
    /\ pending' = pending \cup
          {[pubkey |-> CurrentBatch[stepI].pubkey, at |-> Now, sig |-> batchSig]}
    /\ rpc' = "single"
    /\ stepI' = 1
    /\ acc' = Zero
    /\ UNCHANGED <<chain, store, envSteps, breaker, mode, dryRun, whitelist, ids,
                   fetchI, results, batchI, batchSig, totals, ret, submitted,
                   batchLog, startStatus, fundedBefore, observedNonZero>>

\* An un-awaited updateAccountStatus reaches the store
PendingWriteLands ==
    /\ \E w \in pending :
        /\ store' = UpdateAccountStatus(store, w.pubkey, "reclaimed", w.at, w.sig)
        /\ pending' = pending \ {w}
    /\ UNCHANGED <<chain, envSteps, breaker, rpc, mode, dryRun, whitelist, ids, fetchI,
                   results, batchI, stepI, batchSig, acc, totals, ret, submitted,
                   batchLog, startStatus, fundedBefore, observedNonZero>>

\* the fallback loop of reclaimBatch moves to the next account or returns
AfterSingle(r) ==
    IF stepI < Len(CurrentBatch)
    THEN /\ stepI' = stepI + 1
         /\ acc' = Plus(acc, r)
         /\ UNCHANGED <<rpc, totals, batchLog, batchI>>
    ELSE /\ stepI' = 1
         /\ acc' = Zero
         /\ BatchReturns("fallback", Plus(acc, r))

\* reclaimSingle: the close is confirmed, then updateAccountStatus is awaited
\* what the fallback loop adds for an account whose single close did not go through
SingleFailedUncounted == Zero

SingleFailed == [success |-> 0, failed |-> 1, sol |-> 0]

SingleConfirmed ==
    /\ rpc = "single"
    /\ LET e == CurrentBatch[stepI]
       IN /\ Closable(e.pubkey)
          /\ submitted' = Append(submitted, Mutation("single", <<e>>, TRUE))
          /\ chain' = [chain EXCEPT ![e.pubkey] = Absent]
          /\ store' = UpdateAccountStatus(store, e.pubkey, "reclaimed", Now, NextSig)
          /\ AfterSingle([success |-> 1, failed |-> 0, sol |-> e.lamports])
    /\ UNCHANGED <<envSteps, breaker, mode, dryRun, whitelist, ids, fetchI, results,
                   batchSig, ret, pending, startStatus, fundedBefore, observedNonZero>>

\* reclaimSingle: the close fails, the account is marked error
SingleFails ==
    /\ rpc = "single"
    /\ LET e == CurrentBatch[stepI]
       IN /\ submitted' = Append(submitted, Mutation("single", <<e>>, FALSE))
          /\ store' = BatchUpdateAccountMetadata(store, {e.pubkey}, "error")
          /\ AfterSingle(SingleFailed)
    /\ UNCHANGED <<chain, envSteps, breaker, mode, dryRun, whitelist, ids, fetchI,
                   results, batchSig, ret, pending, startStatus, fundedBefore,
                   observedNonZero>>

\* reclaimAccounts returns its totals, to its caller or to reclaimAllEligible
ReclaimReturns ==
    /\ rpc = "batch"
    /\ batchI > Len(results)
    /\ IF mode = "eligible"
       THEN rpc' = "sweep" /\ UNCHANGED ret
       ELSE rpc' = "done" /\ ret' = totals
    /\ UNCHANGED <<chain, store, envSteps, breaker, mode, dryRun, whitelist, ids,
                   fetchI, results, batchI, stepI, batchSig, acc, totals, pending,
                   submitted, batchLog, startStatus, fundedBefore, observedNonZero>>

\* TREASURY_MIN_SOL (default 0.5) and keepSol (0.1), in tenths of a SOL
TREASURY_MIN_SOL == 5
KeepSol == 1
\* the largest balance getBalance reports, in tenths of a SOL
MaxBalance == 7

\* TREASURY_WALLET: not set, or the address of the cold wallet
TreasuryWallets == {"", "treasury"}

NoSweep == [ran |-> FALSE, wallet |-> "", balance |-> 0, sent |-> 0, confirmed |-> FALSE]

\* sweepProfitToTreasury that sweeps in a dry run too
SweepSkippedWithoutWallet(wallet, dry) == wallet = ""

\* sweepProfitToTreasury: `if (!TREASURY_WALLET || this.dryRun) return`
SweepSkipped(wallet, dry) == wallet = "" \/ dry

\* sweepProfitToTreasury: the amount of the transfer, 0 when none is made
AmountToSend(balance) ==
    IF balance > TREASURY_MIN_SOL /\ balance - KeepSol > 0 THEN balance - KeepSol ELSE 0

\* reclaimAllEligible: `await this.sweepProfitToTreasury()`, then the return of
\* the result of reclaimAccounts (zeros when nothing was eligible). The
\* environment's TREASURY_WALLET is read here only. A getBalance that throws is
\* caught and sends nothing, like a balance of 0; a transfer that throws is
\* caught too.
SweepProfitToTreasury ==
    /\ rpc = "sweep"
    /\ \E wallet \in TreasuryWallets, balance \in 0..MaxBalance, ok \in BOOLEAN :
        LET skipped == SweepSkipped(wallet, dryRun)
            amount == IF skipped THEN 0 ELSE AmountToSend(balance)
        IN sweep' = [ran |-> TRUE, wallet |-> wallet,
                     balance |-> IF skipped THEN 0 ELSE balance,
                     sent |-> amount, confirmed |-> amount > 0 /\ ok]
    /\ ret' = totals
    /\ rpc' = "done"
    /\ UNCHANGED <<chain, store, envSteps, breaker, mode, dryRun, whitelist, ids,
                   fetchI, results, batchI, stepI, batchSig, acc, totals, pending,
                   submitted, batchLog, startStatus, fundedBefore, observedNonZero>>

InitChain == {Token(0, Operator), Token(0, Stranger), Token(1, Operator)}

----------------------------------------------------------------------------
(* Discoverer: the ledger's history, the provider and the checkpoint row *)

MaxTx == 4
\* `limit: 100` of getTransactionHistory and `foundAccounts.length >= 50`, scaled
PageSize == 2
FlushAt == 2
MaxFailures == 1
\* a maxScanLimit that stops the historical fill after its first page
ScanLimit == 2
\* `retries = 3` of fetchWithRetry
Retries == 3
\* the default of `limit` in fullScan and updateInBackground
Infinity == 1000

\* concurrent callers of scan() for the one operator
Procs == {"s1", "s2"}
ScanLimits == {ScanLimit, Infinity}

\* A transaction is named by its position in the operator's history; its
\* signature is that number, and two consecutive transactions share a slot.
Slot(t) == (t + 1) \div 2

\* processTransaction: the accounts a transaction sponsors (one per
\* transaction, except that transaction 2 sponsors none)
ProcessTransaction(t) == IF t = 2 THEN {} ELSE {t}

RECURSIVE Extract(_)
Extract(txs) == IF txs = <<>> THEN {}
                ELSE ProcessTransaction(Head(txs)) \cup Extract(Tail(txs))

\* The provider's history, newest first: up to PageSize transactions older than
\* `before` (0 = from the newest)
HistoryPage(before, newest) ==
    LET start == IF before = 0 THEN newest ELSE before - 1
        n == Min(PageSize, start)
    IN [j \in 1..n |-> start - j + 1]

Responses == {"ok", "429", "404", "error"}
Attempts == [1..Retries -> Responses]
Degraded(attempts) == \E i \in 1..Retries : attempts[i] # "ok"

\* fetchWithRetry, attempt i (1-based) with `last` the lastError so far
RECURSIVE FetchWithRetry(_, _, _)
FetchWithRetry(attempts, i, last) ==
    IF i > Retries THEN [throws |-> TRUE, error |-> last, body |-> ""]
    ELSE CASE attempts[i] = "429" -> FetchWithRetry(attempts, i + 1, last)
           [] attempts[i] = "404" -> [throws |-> FALSE, error |-> "", body |-> "[]"]
           [] attempts[i] = "error" -> FetchWithRetry(attempts, i + 1, "Error")
           [] OTHER -> [throws |-> FALSE, error |-> "", body |-> "page"]

\* getTransactionHistory: fetchWithRetry, then response.json()
GetTransactionHistory(attempts, before, newest) ==
    LET r == FetchWithRetry(attempts, 1, "undefined")
    IN [throws |-> r.throws, error |-> r.error,
        txs |-> IF r.body = "page" THEN HistoryPage(before, newest) ELSE <<>>]

\* fetchWithRetry: one turn of `for (let i = 0; i < retries; i++)`
FetchAttempt ==
    /\ fetched = "running"
    /\ attempt < Retries
    /\ attempt' = attempt + 1
    /\ LET status == answers[attempt + 1]
       IN CASE status = "429" -> UNCHANGED <<lastError, fetched>>
            [] status = "404" -> fetched' = "empty" /\ UNCHANGED lastError
            [] status = "error" -> lastError' = "Error" /\ UNCHANGED fetched
            [] OTHER -> fetched' = "response" /\ UNCHANGED lastError
    /\ UNCHANGED <<answers, logged>>

\* fetchWithRetry: `throw lastError` after the loop
FetchThrows ==
    /\ fetched = "running"
    /\ attempt >= Retries
    /\ fetched' = "thrown"
    /\ UNCHANGED <<answers, attempt, lastError, logged>>

\* the catch block of the page loop: console.error with `e.message`, which is
\* a TypeError of its own when the value thrown is undefined
HandlerLogs ==
    /\ fetched = "thrown"
    /\ logged = ""
    /\ logged' = IF lastError = "undefined" THEN "TypeError" ELSE lastError
    /\ UNCHANGED <<answers, attempt, lastError, fetched>>

FetchParked ==
    /\ answers = <<>>
    /\ attempt = 0
    /\ lastError = "undefined"
    /\ fetched = "parked"
    /\ logged = ""

\* getCheckpoint returning null
NoRow == [exists |-> FALSE, oldestSignature |-> 0, newestSignature |-> 0,
          oldestSlot |-> 0, newestSlot |-> 0, scanStatus |-> "",
          firstScanComplete |-> FALSE]

\* the argument of updateCheckpoint; 0, "" and FALSE stand for a field not given
Fields(oldestSig, newestSig, oldestSlot, newestSlot, status, complete) ==
    [oldestSignature |-> oldestSig, newestSignature |-> newestSig,
     oldestSlot |-> oldestSlot, newestSlot |-> newestSlot,
     scanStatus |-> status, firstScanComplete |-> complete]

\* COALESCE(excluded.x, x) after `checkpoint.x || null`
Coalesce(given, old) == IF given # 0 THEN given ELSE old

\* updateCheckpoint: INSERT ... ON CONFLICT(operator) DO UPDATE
UpdateCheckpoint(row, f) ==
    [exists |-> TRUE,
     oldestSignature |-> Coalesce(f.oldestSignature, row.oldestSignature),
     newestSignature |-> Coalesce(f.newestSignature, row.newestSignature),
     oldestSlot |-> Coalesce(f.oldestSlot, row.oldestSlot),
     newestSlot |-> Coalesce(f.newestSlot, row.newestSlot),
     scanStatus |-> IF f.scanStatus = "" THEN "pending" ELSE f.scanStatus,
     firstScanComplete |-> f.firstScanComplete]

\* the locals of a scan() call and of the fullScan / updateInBackground it runs;
\* relevant, first and lastPage are read by the properties only: the
\* transactions the upward loop has processed, the first transaction of its
\* first page and the page it fetched last
Blank == [via |-> "scan", limit |-> Infinity, checkpoint |-> NoRow, own |-> NoRow,
          before |-> 0, newestSig |-> 0, newestSlot |-> 0, oldestSig |-> 0,
          oldestSlot |-> 0, found |-> {}, total |-> 0, reachedEnd |-> FALSE,
          relevant |-> {}, first |-> 0, lastPage |-> <<>>]

NoFill == [how |-> "none", over |-> FALSE, pages |-> 0, lastTx |-> 0, extracted |-> {}]

\* `ACTIVE_SCANS.has(operator)` without the registry
GuardNeverHeld(active, op) == FALSE

\* `ACTIVE_SCANS.has(operator)`
GuardHeld(active, op) == op \in active

\* the ledger confirms one more transaction of the operator
LedgerGrows ==
    /\ top < MaxTx
    /\ top' = top + 1
    /\ UNCHANGED <<failures, cp, saved, activeScans, pc, loc, worked, arrivedBusy,
                   lastFill>>

\* the provider may answer badly while its budget of failures lasts
ProviderAnswers(degraded) ==
    /\ degraded => failures < MaxFailures
    /\ failures' = IF degraded THEN failures + 1 ELSE failures

\* what a getTransactionHistory call can come to, over all the provider's answers
Outcomes(before, newest) ==
    {[degraded |-> Degraded(a), r |-> GetTransactionHistory(a, before, newest)] :
        a \in Attempts}

Goto(p, where, locals) ==
    /\ pc' = [pc EXCEPT ![p] = where]
    /\ loc' = [loc EXCEPT ![p] = locals]


\* scan(): `await database.getCheckpoint(operator)` reads the row
ScanCall(p) ==
    /\ pc[p] = "idle"
    /\ \E limit \in ScanLimits :
        Goto(p, "scan", [Blank EXCEPT !.checkpoint = cp, !.limit = limit])
    /\ worked' = [worked EXCEPT ![p] = FALSE]
    /\ arrivedBusy' = [arrivedBusy EXCEPT ![p] = FALSE]
    /\ UNCHANGED <<top, failures, cp, saved, activeScans, lastFill>>

\* scan() goes on with the row it read: updateInBackground up to its first
\* await when there is a row, the first-time branch when there is none
ScanContinue(p) ==
    /\ pc[p] = "scan"
    /\ arrivedBusy' = [arrivedBusy EXCEPT ![p] = Operator \in activeScans]
    /\ IF GuardHeld(activeScans, Operator)
       THEN /\ Goto(p, "idle", Blank)
            /\ UNCHANGED activeScans
       ELSE IF loc[p].checkpoint.exists
       THEN /\ activeScans' = activeScans \cup {Operator}
            /\ Goto(p, "up_fetch",
                    [loc[p] EXCEPT !.newestSig = loc[p].checkpoint.newestSignature,
                                   !.newestSlot = loc[p].checkpoint.newestSlot])
       ELSE /\ Goto(p, "full_read", loc[p])
            /\ UNCHANGED activeScans
    /\ UNCHANGED <<top, failures, cp, saved, worked, lastFill>>

\* fullScan: `let checkpoint = await database.getCheckpoint(operator)`
FullScanRead(p) ==
    /\ pc[p] = "full_read"
    /\ Goto(p, "full_guard", [loc[p] EXCEPT !.own = cp])
    /\ UNCHANGED <<top, failures, cp, saved, activeScans, worked, arrivedBusy, lastFill>>

\* fullScan returns to its caller: scan() returns, updateInBackground runs its
\* last statement, `ACTIVE_SCANS.delete(operator)`
FullScanReturns(p, active) ==
    /\ activeScans' = IF loc[p].via = "update" THEN active \ {Operator} ELSE active
    /\ Goto(p, "idle", Blank)

\* fullScan: the two early returns, then `ACTIVE_SCANS.add(operator)`
FullScanGuard(p) ==
    /\ pc[p] = "full_guard"
    /\ IF loc[p].own.exists /\ loc[p].own.firstScanComplete
       THEN /\ FullScanReturns(p, activeScans)
            /\ UNCHANGED <<arrivedBusy, lastFill>>
       ELSE /\ arrivedBusy' =
                 IF loc[p].via = "scan"
                 THEN [arrivedBusy EXCEPT ![p] = Operator \in activeScans]
                 ELSE arrivedBusy
            /\ IF GuardHeld(activeScans, Operator)
               THEN /\ FullScanReturns(p, activeScans)
                    /\ UNCHANGED lastFill
               ELSE /\ activeScans' = activeScans \cup {Operator}
                    /\ Goto(p, "full_init", loc[p])
                    /\ lastFill' = [NoFill EXCEPT !.how = "running"]
    /\ UNCHANGED <<top, failures, cp, saved, worked>>

\* fullScan: the first updateCheckpoint, and the cursors taken from the row read
FullScanInit(p) ==
    /\ pc[p] = "full_init"
    /\ cp' = UpdateCheckpoint(cp, Fields(0, 0, 0, 0, "scanning", FALSE))
    /\ Goto(p, "full_fetch",
            [loc[p] EXCEPT !.before = loc[p].own.oldestSignature,
                           !.newestSig = loc[p].own.newestSignature,
                           !.newestSlot = loc[p].own.newestSlot,
                           !.oldestSig = loc[p].own.oldestSignature,
                           !.oldestSlot = loc[p].own.oldestSlot])
    /\ worked' = [worked EXCEPT ![p] = TRUE]
    /\ UNCHANGED <<top, failures, saved, activeScans, arrivedBusy, lastFill>>

\* fullScan: one page that arrived with transactions
FullScanTakesPage(p, txs) ==
    LET l == loc[p]
        last == txs[Len(txs)]
        found == l.found \cup Extract(txs)
        total == l.total + Len(txs)
        flush == Cardinality(found) >= FlushAt
        newestSig == IF l.newestSig = 0 THEN txs[1] ELSE l.newestSig
        newestSlot == IF l.newestSig = 0 THEN Slot(txs[1]) ELSE l.newestSlot
    IN /\ saved' = IF flush THEN saved \cup found ELSE saved
       /\ cp' = IF flush
                THEN UpdateCheckpoint(cp, Fields(last, newestSig, Slot(last), newestSlot,
                                                 "scanning", FALSE))
                ELSE cp
       /\ Goto(p, IF total >= l.limit THEN "full_final" ELSE "full_fetch",
               [l EXCEPT !.newestSig = newestSig, !.newestSlot = newestSlot,
                         !.oldestSig = last, !.oldestSlot = Slot(last),
                         !.before = last, !.total = total,
                         !.found = IF flush THEN {} ELSE found])
       /\ lastFill' = [how |-> IF total >= l.limit THEN "limit" ELSE lastFill.how,
                       over |-> FALSE,
                       pages |-> lastFill.pages + 1,
                       lastTx |-> last,
                       extracted |-> lastFill.extracted \cup Extract(txs)]
       /\ UNCHANGED activeScans

\* fullScan: one turn of the page loop
FullScanPage(p) ==
    /\ pc[p] = "full_fetch"
    /\ \E o \in Outcomes(loc[p].before, top) :
        /\ ProviderAnswers(o.degraded)
        /\ LET r == o.r
           IN CASE r.throws /\ r.error = "undefined" ->
                    \* `e.message` throws inside the catch block: the outer
                    \* catch logs it, and finally releases the guard
                    /\ activeScans' = activeScans \ {Operator}
                    /\ Goto(p, "idle", Blank)
                    /\ lastFill' = [lastFill EXCEPT !.how = "fetch_failed", !.over = TRUE]
                    /\ UNCHANGED <<cp, saved>>
                [] r.throws /\ r.error # "undefined" ->
                    /\ Goto(p, "full_final", loc[p])
                    /\ lastFill' = [lastFill EXCEPT !.how = "fetch_failed"]
                    /\ UNCHANGED <<cp, saved, activeScans>>
                [] ~r.throws /\ r.txs = <<>> ->
                    /\ Goto(p, "full_final", [loc[p] EXCEPT !.reachedEnd = TRUE])
                    /\ lastFill' = [lastFill EXCEPT !.how = "end"]
                    /\ UNCHANGED <<cp, saved, activeScans>>
                [] OTHER -> FullScanTakesPage(p, r.txs)
    /\ UNCHANGED <<top, worked, arrivedBusy>>

\* fullScan: save what is left, the final updateCheckpoint, and finally
FullScanFinal(p) ==
    /\ pc[p] = "full_final"
    /\ saved' = saved \cup loc[p].found
    /\ cp' = UpdateCheckpoint(cp, Fields(loc[p].oldestSig, loc[p].newestSig,
                                         loc[p].oldestSlot, loc[p].newestSlot,
                                         "complete", loc[p].reachedEnd))
    /\ activeScans' = activeScans \ {Operator}
    /\ Goto(p, "idle", Blank)
    /\ lastFill' = [lastFill EXCEPT !.over = TRUE]
    /\ UNCHANGED <<top, failures, worked, arrivedBusy>>

\* position in txs of the seam (checkpoint.newestSignature), 0 when absent
HitCheckpoint(txs, seam) ==
    IF \E j \in 1..Len(txs) : txs[j] = seam
    THEN CHOOSE j \in 1..Len(txs) : txs[j] = seam
    ELSE 0

\* updateInBackground: one page of the upward loop that arrived with transactions
UpTakesPage(p, txs) ==
    LET l == loc[p]
        hit == HitCheckpoint(txs, l.checkpoint.newestSignature)
        relevant == IF hit > 0 THEN SubSeq(txs, 1, hit - 1) ELSE txs
        seen == [l EXCEPT !.lastPage = txs,
                          !.first = IF l.before = 0 THEN txs[1] ELSE l.first]
    IN IF relevant = <<>>
       THEN Goto(p, "up_checkpoint", seen)
       ELSE Goto(p, IF hit > 0 THEN "up_checkpoint" ELSE "up_fetch",
                 [seen EXCEPT !.newestSig = IF l.before = 0 THEN relevant[1] ELSE l.newestSig,
                              !.newestSlot = IF l.before = 0 THEN Slot(relevant[1])
                                             ELSE l.newestSlot,
                              !.found = l.found \cup Extract(relevant),
                              !.relevant = l.relevant \cup Range(relevant),
                              !.before = IF hit > 0 THEN l.before ELSE txs[Len(txs)]])

\* updateInBackground: one turn of the upward loop
UpFetch(p) ==
    /\ pc[p] = "up_fetch"
    /\ \E o \in Outcomes(loc[p].before, top) :
        /\ ProviderAnswers(o.degraded)
        /\ LET r == o.r
           IN CASE r.throws /\ r.error = "undefined" ->
                    \* `e.message` throws inside the catch block and the call
                    \* rejects before `ACTIVE_SCANS.delete(operator)`
                    Goto(p, "idle", Blank)
                [] r.throws /\ r.error # "undefined" -> Goto(p, "up_refresh", loc[p])
                [] ~r.throws /\ r.txs = <<>> -> Goto(p, "up_checkpoint", loc[p])
                [] OTHER -> UpTakesPage(p, r.txs)
    /\ worked' = [worked EXCEPT ![p] = TRUE]
    /\ UNCHANGED <<top, cp, saved, activeScans, arrivedBusy, lastFill>>

\* updateInBackground: saveAccounts(foundNew) and the updateCheckpoint of the
\* upward fill
UpCheckpoint(p) ==
    /\ pc[p] = "up_checkpoint"
    /\ saved' = saved \cup loc[p].found
    /\ cp' = UpdateCheckpoint(cp, Fields(0, loc[p].newestSig, 0, loc[p].newestSlot,
                                         "", FALSE))
    /\ Goto(p, "up_refresh", loc[p])
    /\ UNCHANGED <<top, failures, activeScans, worked, arrivedBusy, lastFill>>

\* updateInBackground: the refresh of the active accounts (which writes account
\* rows only), then the continuation of the historical fill or the release
RefreshActive(p) ==
    /\ pc[p] = "up_refresh"
    /\ IF ~loc[p].checkpoint.firstScanComplete
       THEN /\ Goto(p, "full_read", [loc[p] EXCEPT !.via = "update"])
            /\ UNCHANGED activeScans
       ELSE /\ activeScans' = activeScans \ {Operator}
            /\ Goto(p, "idle", Blank)
    /\ UNCHANGED <<top, failures, cp, saved, worked, arrivedBusy, lastFill>>

\* updateInBackground, staleness refresh: a store call of refreshActiveAccounts
\* rejects; the loop is outside every try block, so the call rejects before
\* `ACTIVE_SCANS.delete(operator)`
RefreshActiveFails(p) ==
    /\ pc[p] = "up_refresh"
    /\ Goto(p, "idle", Blank)
    /\ UNCHANGED <<top, failures, cp, saved, activeScans, worked, arrivedBusy, lastFill>>

ScanParked ==
    /\ top = 0
    /\ failures = 0
    /\ cp = NoRow
    /\ saved = {}
    /\ activeScans = {}
    /\ pc = [p \in Procs |-> "idle"]
    /\ loc = [p \in Procs |-> Blank]
    /\ worked = [p \in Procs |-> FALSE]
    /\ arrivedBusy = [p \in Procs |-> FALSE]
    /\ lastFill = NoFill


----------------------------------------------------------------------------
(* Discoverer.processTransaction on one transaction of the provider *)

SYSTEM_PROGRAM_ID == "11111111111111111111111111111111"
TOKEN_PROGRAM_ID == "TokenkegQfeZyiNwAJbNbGKPFXCWuBvf9Ss623VQ5DA"
TOKEN_2022_PROGRAM_ID == "TokenzQdBNbAtYpYbt9UEHJR9YWYvNf2t8S77tB39L"
ASSOCIATED_TOKEN_PROGRAM_ID == "ATokenGPvbdGVxr1b2hvZbsiqW5xWH25efTNsLJA8knL"
SysvarRent == "SysvarRent111111111111111111111111111111111"

SYSTEM_ADDRESSES ==
    {SysvarRent, "SysvarC1ock11111111111111111111111111111111",
     SYSTEM_PROGRAM_ID, TOKEN_PROGRAM_ID, TOKEN_2022_PROGRAM_ID,
     ASSOCIATED_TOKEN_PROGRAM_ID, "ComputeBudget111111111111111111111111111111"}

\* the deposit of a 165-byte token account that the code falls back to, and the
\* distance under which a balance change counts as that deposit
FallbackRent == 2039280
RentTolerance == 100

\* what getMinimumBalanceForRentExemption(165) answers: the classic deposit, or
\* a deposit the ledger has moved away from it
Rents == {FallbackRent, FallbackRent + RentTolerance}

\* the addresses of a sponsored transaction: the new account, a second one, the
\* wallet that owns them and the mint they hold
NewAccount == "A1"
OtherAccount == "A2"
Wallet == "wallet"
Mint == "mint"

\* the provider's label of a transaction (HeliusTransaction.type)
TxTypes == {"CREATE_ACCOUNT", "SET_AUTHORITY", "UNKNOWN", "TRANSFER"}

AccountData(account, change) == [account |-> account, nativeBalanceChange |-> change]
Instruction(programId, accounts) == [programId |-> programId, accounts |-> accounts]

\* CreateAssociatedTokenAccount: [payer, ata, owner, mint, system, token program]
CreateAta(payer, program) ==
    Instruction(ASSOCIATED_TOKEN_PROGRAM_ID,
                <<payer, NewAccount, Wallet, Mint, SYSTEM_PROGRAM_ID, program>>)
\* InitializeAccount of the token program: [account, mint, owner, rent sysvar]
InitializeAccount ==
    Instruction(TOKEN_PROGRAM_ID, <<NewAccount, Mint, Wallet, SysvarRent>>)
\* a token transfer into the new account: [source, destination, authority]
TransferInto ==
    Instruction(TOKEN_PROGRAM_ID, <<OtherAccount, NewAccount, Wallet>>)
\* the system program funding the new account: [from, to]
SystemCreate(payer) == Instruction(SYSTEM_PROGRAM_ID, <<payer, NewAccount>>)

Instructions(payer) ==
    {CreateAta(payer, TOKEN_PROGRAM_ID), CreateAta(payer, TOKEN_2022_PROGRAM_ID),
     InitializeAccount, TransferInto, SystemCreate(payer)}

MaxInstructions == 2

InstructionLists(payer) ==
    UNION {[1..n -> Instructions(payer)] : n \in 0..MaxInstructions}

\* the transactions the provider may return when the deposit is `rent`: the fee
\* payer pays what the new accounts receive
Transactions(rent) ==
    UNION {
      {[feePayer |-> payer, type |-> type, instructions |-> ixs,
        accountData |-> <<AccountData(payer, 0 - (d + (IF second THEN e ELSE 0))),
                          AccountData(NewAccount, d)>>
                        \o (IF second THEN <<AccountData(OtherAccount, e)>> ELSE <<>>)
                        \o <<AccountData(Wallet, 0), AccountData(Mint, 0),
                             AccountData(SYSTEM_PROGRAM_ID, sys)>>] :
          type \in TxTypes, ixs \in InstructionLists(payer),
          d \in {0, rent, rent + RentTolerance, FallbackRent},
          e \in {0, rent}, sys \in {0, rent}, second \in BOOLEAN} :
      payer \in {Operator, Stranger}}

Abs(x) == IF x < 0 THEN 0 - x ELSE x

\* `Math.abs(balanceChange - rent) < 100` with rent = this.cachedRent || 2039280
IsRentMatch(balanceChange, cached) ==
    LET rent == IF cached # 0 THEN cached ELSE FallbackRent
    IN  Abs(balanceChange - rent) < RentTolerance

\* the instructions of the CreateAssociatedTokenAccount pattern that name pubkey
AtaPatterns(t, pubkey) ==
    {i \in DOMAIN t.instructions :
        /\ t.instructions[i].programId = ASSOCIATED_TOKEN_PROGRAM_ID
        /\ Len(t.instructions[i].accounts) >= 4
        /\ t.instructions[i].accounts[2] = pubkey}

First(S) == CHOOSE i \in S : \A j \in S : i <= j

\* the `find` of the fallback: the first other account that is not a system one
OtherAccounts(t, operatorStr, pubkey) ==
    {i \in DOMAIN t.accountData :
        t.accountData[i].account \notin ({operatorStr, pubkey} \cup SYSTEM_ADDRESSES)}

\* what the loop body builds for one entry of accountData
Discovered(t, operatorStr, accData) ==
    LET pubkey == accData.account
        ata == AtaPatterns(t, pubkey)
        ix == t.instructions[First(ata)]
        others == OtherAccounts(t, operatorStr, pubkey)
        fromIx == IF ata # {} THEN ix.accounts[3] ELSE ""
    IN  [pubkey |-> pubkey,
         userWallet |-> IF fromIx # "" THEN fromIx
                        ELSE IF others # {} THEN t.accountData[First(others)].account
                        ELSE "",
         mint |-> IF ata # {} THEN ix.accounts[4] ELSE "",
         type |-> IF ata = {} THEN "system"
                  ELSE IF Len(ix.accounts) >= 6 /\ ix.accounts[6] = TOKEN_2022_PROGRAM_ID
                       THEN "token-2022"
                  ELSE "token",
         rentPaid |-> accData.nativeBalanceChange]

RECURSIVE FoundIn(_, _, _, _)
\* every account that matched the deposit is kept, whatever its kind
AnyKind(type) == TRUE

\* `if (type === 'token' || type === 'token-2022')`
KnownKind(type) == type \in {"token", "token-2022"}

FoundIn(t, operatorStr, cached, data) ==
    IF data = <<>> THEN <<>>
    ELSE LET accData == Head(data)
             rest == FoundIn(t, operatorStr, cached, Tail(data))
             d == Discovered(t, operatorStr, accData)
         IN  IF ~IsRentMatch(accData.nativeBalanceChange, cached) THEN rest
             ELSE IF accData.account = operatorStr
                     \/ accData.account \in SYSTEM_ADDRESSES THEN rest
             ELSE IF KnownKind(d.type) THEN <<d>> \o rest
             ELSE rest

\* the labels of the provider that processTransaction does not look into
TypeSkipped(type) == type \notin {"CREATE_ACCOUNT", "SET_AUTHORITY", "UNKNOWN"}

\* processTransaction(tx) of a Discoverer of operatorStr whose cachedRent is cached
ProcessTransactionOf(t, operatorStr, cached) ==
    IF t.feePayer # operatorStr THEN <<>>
    ELSE IF TypeSkipped(t.type) THEN <<>>
    ELSE FoundIn(t, operatorStr, cached, t.accountData)

extractFrame == <<tx, currentRent>>

\* `if (!this.cachedRent)`: the deposit is asked of the ledger, and the classic
\* one is taken when the call fails
FetchRent ==
    /\ xpc = "rent"
    /\ cachedRent = 0
    /\ \E ok \in BOOLEAN : cachedRent' = IF ok THEN currentRent ELSE FallbackRent
    /\ xpc' = "tx"
    /\ UNCHANGED <<extracted, hooked, persisted, extractFrame>>

\* processTransaction(tx) for a transaction of the fetched page
ExtractCandidates ==
    /\ xpc = "tx"
    /\ extracted' = ProcessTransactionOf(tx, Operator, cachedRent)
    /\ xpc' = "done"
    /\ UNCHANGED <<cachedRent, hooked, persisted, extractFrame>>

\* the constant of the handler's file, which is not the program's address
WEBHOOK_TOKEN_2022_PROGRAM_ID == "TokenzQdBNbLqP5VEhdkAS6EPFLC1PHnBqCXEpPxuEb"

\* `if (balanceChange < 1000000 || balanceChange > 3000000) continue`
WebhookRentLow == 1000000
WebhookRentHigh == 3000000
InWebhookRange(balanceChange) ==
    balanceChange >= WebhookRentLow /\ balanceChange <= WebhookRentHigh

\* what the handler's loop body builds for one entry of accountData
WebhookDiscovered(t, accData) ==
    LET pubkey == accData.account
        ata == AtaPatterns(t, pubkey)
        ix == t.instructions[First(ata)]
    IN  [pubkey |-> pubkey,
         userWallet |-> IF ata # {} /\ ix.accounts[3] # "" THEN ix.accounts[3]
                        ELSE "UNKNOWN",
         mint |-> IF ata # {} /\ ix.accounts[4] # "" THEN ix.accounts[4]
                  ELSE "UNKNOWN",
         type |-> IF ata = {} THEN "system"
                  ELSE IF Len(ix.accounts) >= 6
                          /\ ix.accounts[6] = WEBHOOK_TOKEN_2022_PROGRAM_ID
                       THEN "token-2022"
                  ELSE "token",
         rentPaid |-> accData.nativeBalanceChange]

RECURSIVE WebhookFoundIn(_, _)
WebhookFoundIn(t, data) ==
    IF data = <<>> THEN <<>>
    ELSE LET accData == Head(data)
             rest == WebhookFoundIn(t, Tail(data))
             d == WebhookDiscovered(t, accData)
         IN  IF ~InWebhookRange(accData.nativeBalanceChange) THEN rest
             ELSE IF d.type \in {"token", "token-2022"} THEN <<d>> \o rest
             ELSE rest

\* the body of the handler's loop for one transaction of the payload;
\* operatorAddress is the third argument, a string or the Set of index.ts
WebhookTransaction(t, operatorAddress) ==
    IF t.feePayer # operatorAddress THEN <<>>
    ELSE WebhookFoundIn(t, t.accountData)

\* handleHeliusWebhook for a payload that holds tx: what it discovered goes to
\* batchUpsertAccounts
WebhookDelivers ==
    /\ xpc \in {"rent", "tx", "done"}
    /\ ~hooked
    /\ \E operatorAddress \in {Operator, "Set"} :
          persisted' = WebhookTransaction(tx, operatorAddress)
    /\ hooked' = TRUE
    /\ UNCHANGED <<cachedRent, extracted, xpc, extractFrame>>

NoTransaction == [feePayer |-> "", type |-> "", instructions |-> <<>>,
                  accountData |-> <<>>]

ExtractParked ==
    /\ tx = NoTransaction
    /\ currentRent = FallbackRent
    /\ cachedRent = 0
    /\ extracted = <<>>
    /\ xpc = "parked"
    /\ hooked = FALSE
    /\ persisted = <<>>

----------------------------------------------------------------------------
(* The sponsored_accounts table, the Verifier and the paths that write rows *)

\* Date.now() in the model's unit of time, and the third-party changes to the
\* ledger while the table is watched
MaxClock == 1
MaxMoves == 1
\* `refreshActiveAccounts(1000, true)`, scaled
RefreshLimit == 2

\* the accounts the operator sponsored
Tracked == {"A1", "A2"}

TableRow(pk, status, at) == [pubkey |-> pk, status |-> status, last_checked |-> at]
RowsOf(t, pk) == {r \in t : r.pubkey = pk}
StatusOf(t, pk) == IF RowsOf(t, pk) = {} THEN "none"
                   ELSE (CHOOSE r \in RowsOf(t, pk) : TRUE).status

\* INSERT INTO sponsored_accounts without the ON CONFLICT clause
UpsertNoConflict(t, c, now) == t \cup {TableRow(c.pubkey, c.status, now)}

\* INSERT INTO sponsored_accounts ... ON CONFLICT(pubkey) DO UPDATE SET
\* status = excluded.status, last_checked = excluded.last_checked, ...
UpsertSponsoredAccount(t, c, now) ==
    IF RowsOf(t, c.pubkey) = {}
    THEN t \cup {TableRow(c.pubkey, c.status, now)}
    ELSE {IF r.pubkey = c.pubkey
          THEN [r EXCEPT !.status = c.status, !.last_checked = now]
          ELSE r : r \in t}

\* batchUpsertAccounts: the same statement for every account of the batch
RECURSIVE BatchUpsertAccounts(_, _, _)
BatchUpsertAccounts(t, cands, now) ==
    IF cands = {} THEN t
    ELSE LET c == CHOOSE x \in cands : TRUE
         IN BatchUpsertAccounts(UpsertSponsoredAccount(t, c, now), cands \ {c}, now)

\* batchUpdateAccountMetadata on the table: UPDATE ... SET status =
\* COALESCE(?, status), last_checked = ? WHERE pubkey = ?
UpdateMetadata(t, updates, now) ==
    {IF \E u \in updates : u.pubkey = r.pubkey
     THEN LET u == CHOOSE x \in updates : x.pubkey = r.pubkey
          IN [r EXCEPT !.status = IF u.status = "" THEN r.status ELSE u.status,
                       !.last_checked = now]
     ELSE r : r \in t}

\* getActiveAccountsForOperator(operator, limit): the results that `WHERE status
\* = 'active' ORDER BY last_checked ASC LIMIT ?` can give
ActiveBatches(t, limit) ==
    LET active == {r \in t : r.status = "active"}
        n == Min(limit, Cardinality(active))
    IN {b \in SUBSET active :
          /\ Cardinality(b) = n
          /\ \A r \in b, q \in active \ b : r.last_checked <= q.last_checked}

\* Analyzer.analyzeAccounts for one fetched account that exists; status is
\* never set ("" stands for undefined)
AnalyzerResult(a) ==
    LET c == chain[a]
        canClose == c.closeAuthority = Operator
    IN CASE c.kind = "token" /\ c.amount = 0 ->
              [pubkey |-> a, canReclaim |-> canClose, status |-> "",
               reason |-> IF canClose THEN "" ELSE "authority_mismatch"]
         [] c.kind = "token" ->
              [pubkey |-> a, canReclaim |-> FALSE, status |-> "",
               reason |-> "balance_nonzero"]
         [] OTHER ->
              [pubkey |-> a, canReclaim |-> FALSE, status |-> "",
               reason |-> "not_token_account"]

\* Analyzer.analyzeAccounts: `if (!info) { closed++; continue; }` returns nothing
\* for an account that no longer exists; a failed getMultipleAccountsInfo is
\* caught and returns nothing for the batch
AnalyzeAccounts(pks, ok) ==
    IF ok THEN {AnalyzerResult(a) : a \in {p \in pks : chain[p].kind # "absent"}}
    ELSE {}

\* saveAccounts: the rows kept and the status each is saved with
SaveStatus(res) ==
    IF res.canReclaim THEN "reclaimable"
    ELSE IF res.reason = "authority_mismatch" THEN "locked"
    ELSE ""

\* refreshActiveAccounts: the status of the update made for one result
RefreshStatus(res) ==
    IF res.status = "closed" THEN "closed"
    ELSE IF res.canReclaim THEN "reclaimable"
    ELSE IF res.reason = "authority_mismatch" THEN "locked"
    ELSE ""

Updates(rs, Status(_)) ==
    {[pubkey |-> r.pubkey, status |-> Status(r)] : r \in {x \in rs : Status(x) # ""}}

----------------------------------------------------------------------------
(* Analyzer.analyzeAccounts on one fetched account, and the status its callers write *)

MaxAmount == 1

\* AccountLayout.decode of a fetched token account, and the shapes an account
\* that is not one can take; ZeroKey is the 32 zero bytes of an unset authority
ZeroKey == "11111111111111111111111111111111"
NoInfo == [exists |-> FALSE, program |-> SYSTEM_PROGRAM_ID, owner |-> "", amount |-> 0,
           closeAuthorityOption |-> 0, closeAuthority |-> ZeroKey]
TokenInfos ==
    {[exists |-> TRUE, program |-> prog, owner |-> o, amount |-> n,
      closeAuthorityOption |-> IF ca = ZeroKey THEN 0 ELSE 1, closeAuthority |-> ca] :
        prog \in {TOKEN_PROGRAM_ID, TOKEN_2022_PROGRAM_ID},
        o \in {Operator, Stranger}, n \in 0..MaxAmount,
        ca \in {Operator, Stranger, ZeroKey}}
Infos == TokenInfos \cup {NoInfo, [NoInfo EXCEPT !.exists = TRUE]}

\* `ownerStr === TOKEN_PROGRAM_STR || ownerStr === TOKEN_2022_PROGRAM_STR`
IsToken(i) == i.program \in {TOKEN_PROGRAM_ID, TOKEN_2022_PROGRAM_ID}

NoVerdict == [returned |-> FALSE, canReclaim |-> FALSE, status |-> "", reason |-> ""]

\* `closeAuthorityOption === 1 ? closeAuthority : ''` compared with the operator
CanClose(i, operatorStr) ==
    (IF i.closeAuthorityOption = 1 THEN i.closeAuthority ELSE "") = operatorStr

\* the body of the loop over infos: nothing is returned for a missing account
AnalyzeInfo(i, operatorStr) ==
    IF ~i.exists THEN NoVerdict
    ELSE IF IsToken(i)
    THEN IF i.amount = 0
         THEN [returned |-> TRUE, canReclaim |-> CanClose(i, operatorStr), status |-> "",
               reason |-> IF CanClose(i, operatorStr) THEN "" ELSE "authority_mismatch"]
         ELSE [returned |-> TRUE, canReclaim |-> FALSE, status |-> "",
               reason |-> "balance_nonzero"]
    ELSE [returned |-> TRUE, canReclaim |-> FALSE, status |-> "",
          reason |-> "not_token_account"]

VerifyPaths == {"save", "refresh"}

\* analyzeAccounts for the account
Analyze ==
    /\ vpc \in VerifyPaths
    /\ verdict' = AnalyzeInfo(accountInfo, Operator)
    /\ vpc' = IF vpc = "save" THEN "saving" ELSE "refreshing"
    /\ UNCHANGED <<accountInfo, written>>

\* saveAccounts or refreshActiveAccounts on what the Analyzer returned
WriteStatus ==
    /\ vpc \in {"saving", "refreshing"}
    /\ written' = IF ~verdict.returned THEN ""
                  ELSE IF vpc = "saving" THEN SaveStatus(verdict)
                  ELSE RefreshStatus(verdict)
    /\ vpc' = "written"
    /\ UNCHANGED <<accountInfo, verdict>>

VerifyParked ==
    /\ accountInfo = NoInfo
    /\ verdict = NoVerdict
    /\ written = ""
    /\ vpc = "parked"

\* ---------------------------------------------------------------------------
\* The polling loop of the monitor command (index.ts): runCycle is awaited
\* once, then handed to setInterval.  One invocation scans, then runs
\* reclaimAllEligible, whose batches are awaited one after the other.
\* ---------------------------------------------------------------------------

\* invocations of runCycle followed, and the batches one run can have
MaxCycles == 3
MaxBatches == 2

Cycles == 1..MaxCycles

NotStarted == [phase |-> "waiting", batches |-> 0, i |-> 0]

IntervalParked ==
    /\ cycles = [c \in Cycles |-> NotStarted]
    /\ armed = FALSE

Goes(c, phase, batches, i) ==
    cycles' = [cycles EXCEPT ![c] = [phase |-> phase, batches |-> batches, i |-> i]]

\* the timer calls runCycle whatever the earlier invocations are doing
TimerLets(c) == \A d \in 1..(c - 1) : cycles[d].phase # "waiting"

\* await runCycle(): the first invocation
FirstCycle ==
    /\ ~armed
    /\ cycles[1].phase = "waiting"
    /\ Goes(1, "scan", 0, 0)
    /\ UNCHANGED armed

\* setInterval(runCycle, intervalMs), once the first invocation has returned
SetInterval ==
    /\ ~armed
    /\ cycles[1].phase = "done"
    /\ armed' = TRUE
    /\ UNCHANGED cycles

\* the interval elapses: the next invocation starts
TimerFires ==
    /\ armed
    /\ \E c \in Cycles :
        /\ cycles[c].phase = "waiting"
        /\ TimerLets(c)
        /\ Goes(c, "scan", 0, 0)
    /\ UNCHANGED armed

\* scanner.scan returns; reclaimAllEligible pre-fetches and slices its batches
ScanReturns ==
    /\ \E c \in Cycles, n \in 0..MaxBatches :
        /\ cycles[c].phase = "scan"
        /\ Goes(c, "reclaim", n, 0)
    /\ UNCHANGED armed

\* reclaimBatch: sendAndConfirmTransaction is called and awaited
SendAndConfirm ==
    /\ \E c \in Cycles :
        /\ cycles[c].phase = "reclaim"
        /\ cycles[c].i < cycles[c].batches
        /\ Goes(c, "awaiting", cycles[c].batches, cycles[c].i)
    /\ UNCHANGED armed

\* the confirmation (or the failure) of the batch arrives; the loop goes on
BatchSettles ==
    /\ \E c \in Cycles :
        /\ cycles[c].phase = "awaiting"
        /\ Goes(c, "reclaim", cycles[c].batches, cycles[c].i + 1)
    /\ UNCHANGED armed

\* reclaimAllEligible returns and so does runCycle
CycleReturns ==
    /\ \E c \in Cycles :
        /\ cycles[c].phase = "reclaim"
        /\ cycles[c].i = cycles[c].batches
        /\ Goes(c, "done", cycles[c].batches, cycles[c].i)
    /\ UNCHANGED armed

\* ---------------------------------------------------------------------------
\* The staleness refresh loop of updateInBackground: refreshActiveAccounts is
\* called until a batch is not full or the counter passes the cap.
\* ---------------------------------------------------------------------------

\* forceCount (1000) and the cap on batchesProcessed (100), scaled
LoopLimit == 1
RefreshCap == 2

LoopParked ==
    /\ wpc = "parked"
    /\ batchesProcessed = 0
    /\ lastBatch = {}
    /\ everSubmitted = {}

\* `if (batchesProcessed > 100) break;` left out
CapNeverReached(n) == FALSE

\* `if (batchesProcessed > 100) break;`
CapReached(n) == n > RefreshCap

\* hasMore: active.length === limit
HasMore(batch, limit) == Cardinality(batch) = limit

----------------------------------------------------------------------------
(* The operations on the table, as the properties see them *)

NoOp == [op |-> "none", cands |-> {}, repeat |-> FALSE, gone |-> {}]

\* the record of an upsert; `repeat` tells that it applied again what the
\* operation before it had applied
Upserted(op, cands) ==
    [op |-> op, cands |-> cands,
     repeat |-> lastOp.op \in {"save", "webhook"} /\ cands # {} /\ lastOp.cands = cands,
     gone |-> {}]

\* the part of the Reclaimer's and the ledger's state these paths leave alone
trackFrame == <<store, breaker, rpc, mode, dryRun, whitelist, ids, fetchI, results,
                batchI, stepI, batchSig, acc, totals, ret, pending, submitted,
                batchLog, startStatus, fundedBefore, observedNonZero>>

\* Discoverer.saveAccounts(accounts): verify the candidates of a fill, keep the
\* reclaimable and the locked ones, batchUpsertAccounts
SaveAccounts ==
    /\ \E found \in (SUBSET Tracked) \ {{}}, ok \in BOOLEAN :
        LET toSave == Updates(AnalyzeAccounts(found, ok), SaveStatus)
        IN /\ table' = BatchUpsertAccounts(table, toSave, clock)
           /\ lastOp' = Upserted("save", toSave)
           /\ sponsoredFunded' = sponsoredFunded \cup
                 {a \in found : chain[a].kind = "token" /\ chain[a].amount > 0}
    /\ UNCHANGED <<chain, envSteps, clock, trackFrame>>

\* what handleHeliusWebhook is given as operatorAddress: the address, or the
\* Set of addresses that index.ts passes
WebhookArgs == {Operator, "Set"}

\* handleHeliusWebhook: `if (tx.feePayer !== operatorAddress) continue`
FeePayerDiffers(feePayer, operatorAddress) == feePayer # operatorAddress

\* handleHeliusWebhook for a payload of transactions paid by the operator that
\* create the token accounts `created`: batchUpsertAccounts with status active
HandleHeliusWebhook ==
    /\ \E created \in (SUBSET Tracked) \ {{}}, operatorAddress \in WebhookArgs :
        LET discovered == IF FeePayerDiffers(Operator, operatorAddress) THEN {}
                          ELSE {[pubkey |-> a, status |-> "active"] : a \in created}
        IN /\ table' = BatchUpsertAccounts(table, discovered, clock)
           /\ lastOp' = Upserted("webhook", discovered)
    /\ UNCHANGED <<chain, envSteps, clock, sponsoredFunded, trackFrame>>

\* Discoverer.refreshActiveAccounts: one batch of active rows is submitted to
\* the Verifier and the updates are written with batchUpdateAccountMetadata
RefreshActiveAccounts ==
    /\ \E batch \in ActiveBatches(table, RefreshLimit), ok \in BOOLEAN :
        LET pks == {r.pubkey : r \in batch}
            verified == AnalyzeAccounts(pks, ok)
        IN /\ batch # {}
           /\ table' = UpdateMetadata(table, Updates(verified, RefreshStatus), clock)
           /\ lastOp' = [op |-> "refresh", cands |-> {}, repeat |-> FALSE,
                       gone |-> IF ok THEN {a \in pks : chain[a].kind = "absent"}
                                ELSE {}]
    /\ UNCHANGED <<chain, envSteps, clock, sponsoredFunded, trackFrame>>

\* a user funds, empties or closes a sponsored account, or changes its close
\* authority
LedgerMoves ==
    /\ envSteps < MaxMoves
    /\ \E a \in Tracked, c \in TokenStates \cup {Absent, System} :
        /\ c # chain[a]
        /\ chain[a].kind = "token"
        /\ chain' = [chain EXCEPT ![a] = c]
    /\ envSteps' = envSteps + 1
    /\ UNCHANGED <<tvars, trackFrame>>

\* time passes
Tick ==
    /\ clock < MaxClock
    /\ clock' = clock + 1
    /\ UNCHANGED <<chain, envSteps, table, lastOp, sponsoredFunded, trackFrame>>

TrackParked ==
    /\ table = {}
    /\ clock = 0
    /\ lastOp = NoOp
    /\ sponsoredFunded = {}

\* the Reclaimer with no run started
RunIdle ==
    /\ store = [a \in Accounts |-> Row("reclaimable")]
    /\ breaker = 0
    /\ rpc = "idle"
    /\ mode = "direct"
    /\ dryRun = FALSE
    /\ ids = <<>>
    /\ fetchI = 1
    /\ results = <<>>
    /\ batchI = 1
    /\ stepI = 1
    /\ batchSig = 0
    /\ acc = Zero
    /\ totals = Zero
    /\ ret = Zero
    /\ pending = {}
    /\ submitted = <<>>
    /\ batchLog = <<>>
    /\ startStatus = [a \in Accounts |-> "reclaimable"]
    /\ fundedBefore = {}
    /\ observedNonZero = {}
    /\ sweep = NoSweep

\* every sponsored account starts as a token account, funded or not, that the
\* operator or its owner may close; nothing is stored yet
TrackInit ==
    /\ ExtractParked
    /\ VerifyParked
    /\ IntervalParked
    /\ LoopParked
    /\ FetchParked
    /\ chain \in {c \in [Accounts -> TokenStates] :
                     \A a \in Accounts \ Tracked : c[a] = Token(0, Operator)}
    /\ envSteps = 0
    /\ whitelist = {}
    /\ coolDown = 0
    /\ TrackParked
    /\ RunIdle
    /\ ScanParked

TrackNext ==
    \/ SaveAccounts /\ UNCHANGED <<svars, pvars, xvars, yvars, zvars, wvars, uvars>>
    \/ HandleHeliusWebhook /\ UNCHANGED <<svars, pvars, xvars, yvars, zvars, wvars, uvars>>
    \/ RefreshActiveAccounts /\ UNCHANGED <<svars, pvars, xvars, yvars, zvars, wvars, uvars>>
    \/ LedgerMoves /\ UNCHANGED <<svars, pvars, xvars, yvars, zvars, wvars, uvars>>
    \/ Tick /\ UNCHANGED <<svars, pvars, xvars, yvars, zvars, wvars, uvars>>

TrackSpec == TrackInit /\ [][TrackNext]_vars

\* every polling cycle runs the staleness refresh (index.ts: runCycle scans
\* with forceVerify on a timer)
TrackFairSpec == TrackSpec /\ WF_vars(RefreshActiveAccounts /\ UNCHANGED <<svars, pvars, xvars, yvars, zvars, wvars, uvars>>)



----------------------------------------------------------------------------
(* reclaimAllEligible: the accounts it hands to reclaimAccounts *)

\* the cool-down a deployment sets, in days (the unit of the clock)
CoolDownDays == 1

\* getReclaimableAccounts: the rows with status reclaimable as SponsoredAccount
\* objects; the mapping sets no closedAt (0 stands for undefined)
GetReclaimableRows(t) ==
    {[pubkey |-> r.pubkey, closedAt |-> 0] : r \in {x \in t : x.status = "reclaimable"}}

\* reclaimAllEligible: the cool-down filter, `if (!acc.closedAt) return true;
\* return (now - acc.closedAt) >= minAgeMs`
CoolDownKeeps(account, days, now) ==
    IF days > 0
    THEN (IF account.closedAt = 0 THEN TRUE ELSE now - account.closedAt >= days)
    ELSE TRUE

\* reclaimAllEligible up to the call of reclaimAccounts(pubkeys): the rows read,
\* the whitelist filter, the cool-down filter (the run that follows is the
\* Reclaimer's, above)
EligibleAccounts ==
    /\ LET eligible == {r \in GetReclaimableRows(table) :
                           /\ EligibleFilter(whitelist, r.pubkey)
                           /\ CoolDownKeeps(r, coolDown, clock)}
       IN lastOp' = [op |-> "eligible",
                     cands |-> {[pubkey |-> r.pubkey, status |-> "reclaimable"] :
                                   r \in eligible},
                     repeat |-> FALSE, gone |-> {}]
    /\ UNCHANGED <<chain, envSteps, table, clock, sponsoredFunded, trackFrame>>

\* the accounts are stored as active and are refreshed as time passes; the
\* operator has set a whitelist and a cool-down, or not
EligibleInit ==
    /\ ExtractParked
    /\ VerifyParked
    /\ IntervalParked
    /\ LoopParked
    /\ FetchParked
    /\ chain \in {c \in [Accounts -> TokenStates] :
                     \A a \in Accounts \ Tracked : c[a] = Token(0, Operator)}
    /\ envSteps = 0
    /\ table = {TableRow(a, "active", 0) : a \in Tracked}
    /\ clock = 0
    /\ lastOp = NoOp
    /\ sponsoredFunded = {}
    /\ whitelist \in Whitelists
    /\ coolDown \in {0, CoolDownDays}
    /\ RunIdle
    /\ ScanParked

EligibleNext ==
    \/ RefreshActiveAccounts /\ UNCHANGED <<svars, pvars, xvars, yvars, zvars, wvars, uvars>>
    \/ EligibleAccounts /\ UNCHANGED <<svars, pvars, xvars, yvars, zvars, wvars, uvars>>
    \/ Tick /\ UNCHANGED <<svars, pvars, xvars, yvars, zvars, wvars, uvars>>

EligibleSpec == EligibleInit /\ [][EligibleNext]_vars


ReclaimInit ==
    /\ ExtractParked
    /\ VerifyParked
    /\ IntervalParked
    /\ LoopParked
    /\ FetchParked
    /\ chain \in [Accounts -> InitChain]
    /\ store = [a \in Accounts |-> Row(Classified(chain[a]))]
    /\ envSteps = 0
    /\ breaker \in {0, BreakerLimit}
    /\ rpc = "idle"
    /\ mode = "direct"
    /\ dryRun = FALSE
    /\ whitelist = {}
    /\ ids = <<>>
    /\ fetchI = 1
    /\ results = <<>>
    /\ batchI = 1
    /\ stepI = 1
    /\ batchSig = 0
    /\ acc = Zero
    /\ totals = Zero
    /\ ret = Zero
    /\ pending = {}
    /\ submitted = <<>>
    /\ batchLog = <<>>
    /\ startStatus = [a \in Accounts |-> store[a].status]
    /\ fundedBefore = {}
    /\ observedNonZero = {}
    /\ sweep = NoSweep
    /\ coolDown = 0
    /\ ScanParked
    /\ TrackParked

ReclaimNext ==
    \/ ChainChanges /\ UNCHANGED <<svars, tvars, pvars, xvars, yvars, zvars, wvars, uvars>>
    \/ ReclaimAllEligible /\ UNCHANGED <<svars, tvars, pvars, xvars, yvars, zvars, wvars, uvars>>
    \/ ReclaimAccounts /\ UNCHANGED <<svars, tvars, pvars, xvars, yvars, zvars, wvars, uvars>>
    \/ BatchFetchAccounts /\ UNCHANGED <<svars, tvars, pvars, xvars, yvars, zvars, wvars, uvars>>
    \/ BatchFetchFails /\ UNCHANGED <<svars, tvars, pvars, xvars, yvars, zvars, wvars, uvars>>
    \/ BreakerAborts /\ UNCHANGED <<svars, tvars, pvars, xvars, yvars, zvars, wvars, uvars>>
    \/ DryRunBatch /\ UNCHANGED <<svars, tvars, pvars, xvars, yvars, zvars, wvars, uvars>>
    \/ SubmitBatchConfirmed /\ UNCHANGED <<svars, tvars, pvars, xvars, yvars, zvars, wvars, uvars>>
    \/ SubmitBatchFails /\ UNCHANGED <<svars, tvars, pvars, xvars, yvars, zvars, wvars, uvars>>
    \/ MarkReclaimed /\ UNCHANGED <<svars, tvars, pvars, xvars, yvars, zvars, wvars, uvars>>
    \/ AuditAccount /\ UNCHANGED <<svars, tvars, pvars, xvars, yvars, zvars, wvars, uvars>>
    \/ MarkReclaimedFails /\ UNCHANGED <<svars, tvars, pvars, xvars, yvars, zvars, wvars, uvars>>
    \/ AuditAccountFails /\ UNCHANGED <<svars, tvars, pvars, xvars, yvars, zvars, wvars, uvars>>
    \/ PendingWriteLands /\ UNCHANGED <<svars, tvars, pvars, xvars, yvars, zvars, wvars, uvars>>
    \/ SingleConfirmed /\ UNCHANGED <<svars, tvars, pvars, xvars, yvars, zvars, wvars, uvars>>
    \/ SingleFails /\ UNCHANGED <<svars, tvars, pvars, xvars, yvars, zvars, wvars, uvars>>
    \/ ReclaimReturns /\ UNCHANGED <<svars, tvars, pvars, xvars, yvars, zvars, wvars, uvars>>
    \/ SweepProfitToTreasury /\ UNCHANGED <<svars, tvars, coolDown, xvars, yvars, zvars, wvars, uvars>>

ReclaimSpec == ReclaimInit /\ [][ReclaimNext]_vars

\* ---------------------------------------------------------------------------
\* The polling cycle of index.ts for one operator, with the rows of another
\* operator in the store: forced refresh of the operator's active rows, then
\* reclaimAllEligible with the operator's key.  submitted and batchLog run on
\* over the cycles.
\* ---------------------------------------------------------------------------

OtherOperator == "operator2"

\* the operator column of the row of an account (written when the row is inserted)
StoredOperator(a) == IF a = "A3" THEN OtherOperator ELSE Operator

\* getMultipleAccountsInfo as the Verifier reads it
VerifierInfo(c) ==
    [exists |-> c.kind # "absent",
     program |-> IF c.kind = "token" THEN TOKEN_PROGRAM_ID ELSE SYSTEM_PROGRAM_ID,
     owner |-> c.closeAuthority, amount |-> c.amount,
     closeAuthorityOption |-> 1, closeAuthority |-> c.closeAuthority]

\* getActiveAccountsForOperator also returning the rows stored error
ActiveOrErrorFor(s, operatorStr) ==
    {a \in Accounts : StoredOperator(a) = operatorStr /\ s[a].status \in {"active", "error"}}

\* getActiveAccountsForOperator: WHERE operator = ? AND status = 'active'
GetActiveAccountsForOperator(s, operatorStr) ==
    {a \in Accounts : StoredOperator(a) = operatorStr /\ s[a].status = "active"}

\* refreshActiveAccounts until no batch is left: every active row of the
\* operator gets the status the Verifier maps to, when it maps to one
Refreshed(s, operatorStr) ==
    [a \in Accounts |->
        LET status == RefreshStatus(AnalyzeInfo(VerifierInfo(chain[a]), operatorStr))
        IN IF a \in GetActiveAccountsForOperator(s, operatorStr) /\ status # ""
           THEN [s[a] EXCEPT !.status = status]
           ELSE s[a]]

\* getReclaimableAccounts() as reclaimAllEligible calls it: no operator argument
ReclaimableIn(s) == {a \in Accounts : s[a].status = "reclaimable"}

\* runCycle for the operator: scan({forceVerify: true}) refreshes, then a new
\* Reclaimer (not a dry run) starts reclaimAllEligible with the merged whitelist
RunCycle ==
    /\ rpc \in {"idle", "done"}
    /\ \E wl \in Whitelists :
        LET refreshed == Refreshed(store, Operator)
            eligible == {a \in ReclaimableIn(refreshed) : EligibleFilter(wl, a)}
        IN /\ store' = refreshed
           /\ whitelist' = wl
           /\ ids' = Listed(eligible)
           /\ startStatus' = [a \in Accounts |-> refreshed[a].status]
           /\ rpc' = IF eligible = {} THEN "sweep" ELSE "fetch"
    /\ mode' = "eligible"
    /\ dryRun' = FALSE
    /\ fetchI' = 1
    /\ results' = <<>>
    /\ batchI' = 1
    /\ stepI' = 1
    /\ batchSig' = 0
    /\ acc' = Zero
    /\ totals' = Zero
    /\ UNCHANGED <<chain, envSteps, breaker, ret, pending, submitted, batchLog,
                   fundedBefore, observedNonZero>>

\* what the operator of a row's own cycle has stored for the account
OwnStatus(a, c) ==
    IF c.kind = "token" /\ c.amount = 0
    THEN (IF c.closeAuthority = StoredOperator(a) THEN "reclaimable" ELSE "locked")
    ELSE "active"

CycleChain(a) == {Token(0, StoredOperator(a)), Token(1, StoredOperator(a))}

CycleInit ==
    /\ ExtractParked
    /\ VerifyParked
    /\ IntervalParked
    /\ LoopParked
    /\ FetchParked
    /\ chain \in {c \in [Accounts -> TokenStates \cup {Token(n, OtherOperator) : n \in {0, 1}}] :
                    \A a \in Accounts : c[a] \in CycleChain(a)}
    /\ store = [a \in Accounts |-> Row(OwnStatus(a, chain[a]))]
    /\ envSteps = 0
    /\ breaker \in {0, BreakerLimit}
    /\ rpc = "idle"
    /\ mode = "eligible"
    /\ dryRun = FALSE
    /\ whitelist = {}
    /\ ids = <<>>
    /\ fetchI = 1
    /\ results = <<>>
    /\ batchI = 1
    /\ stepI = 1
    /\ batchSig = 0
    /\ acc = Zero
    /\ totals = Zero
    /\ ret = Zero
    /\ pending = {}
    /\ submitted = <<>>
    /\ batchLog = <<>>
    /\ startStatus = [a \in Accounts |-> store[a].status]
    /\ fundedBefore = {}
    /\ observedNonZero = {}
    /\ sweep = NoSweep
    /\ coolDown = 0
    /\ ScanParked
    /\ TrackParked

CycleNext ==
    \/ RunCycle /\ sweep' = NoSweep /\ UNCHANGED <<svars, tvars, coolDown, xvars, yvars, zvars, wvars, uvars>>
    \/ ChainChanges /\ UNCHANGED <<svars, tvars, pvars, xvars, yvars, zvars, wvars, uvars>>
    \/ BatchFetchAccounts /\ UNCHANGED <<svars, tvars, pvars, xvars, yvars, zvars, wvars, uvars>>
    \/ BatchFetchFails /\ UNCHANGED <<svars, tvars, pvars, xvars, yvars, zvars, wvars, uvars>>
    \/ BreakerAborts /\ UNCHANGED <<svars, tvars, pvars, xvars, yvars, zvars, wvars, uvars>>
    \/ SubmitBatchConfirmed /\ UNCHANGED <<svars, tvars, pvars, xvars, yvars, zvars, wvars, uvars>>
    \/ SubmitBatchFails /\ UNCHANGED <<svars, tvars, pvars, xvars, yvars, zvars, wvars, uvars>>
    \/ MarkReclaimed /\ UNCHANGED <<svars, tvars, pvars, xvars, yvars, zvars, wvars, uvars>>
    \/ AuditAccount /\ UNCHANGED <<svars, tvars, pvars, xvars, yvars, zvars, wvars, uvars>>
    \/ PendingWriteLands /\ UNCHANGED <<svars, tvars, pvars, xvars, yvars, zvars, wvars, uvars>>
    \/ SingleConfirmed /\ UNCHANGED <<svars, tvars, pvars, xvars, yvars, zvars, wvars, uvars>>
    \/ SingleFails /\ UNCHANGED <<svars, tvars, pvars, xvars, yvars, zvars, wvars, uvars>>
    \/ ReclaimReturns /\ UNCHANGED <<svars, tvars, pvars, xvars, yvars, zvars, wvars, uvars>>
    \/ SweepProfitToTreasury /\ UNCHANGED <<svars, tvars, coolDown, xvars, yvars, zvars, wvars, uvars>>

CycleSpec == CycleInit /\ [][CycleNext]_vars

\* every cycle that can start does start, and a started run goes on
CycleFairSpec == CycleSpec /\ WF_vars(CycleNext)


\* the Reclaimer's state while only the Discoverer is watched
ReclaimParked ==
    /\ chain = [a \in Accounts |-> Token(0, Operator)]
    /\ store = [a \in Accounts |-> Row("reclaimable")]
    /\ envSteps = 0
    /\ breaker = 0
    /\ rpc = "idle"
    /\ mode = "direct"
    /\ dryRun = FALSE
    /\ whitelist = {}
    /\ ids = <<>>
    /\ fetchI = 1
    /\ results = <<>>
    /\ batchI = 1
    /\ stepI = 1
    /\ batchSig = 0
    /\ acc = Zero
    /\ totals = Zero
    /\ ret = Zero
    /\ pending = {}
    /\ submitted = <<>>
    /\ batchLog = <<>>
    /\ startStatus = [a \in Accounts |-> "reclaimable"]
    /\ fundedBefore = {}
    /\ observedNonZero = {}
    /\ sweep = NoSweep
    /\ coolDown = 0

----------------------------------------------------------------------------
(* processTransaction on its own: every transaction, every deposit *)

ExtractInit ==
    /\ VerifyParked
    /\ IntervalParked
    /\ LoopParked
    /\ FetchParked
    /\ currentRent \in Rents
    /\ tx \in Transactions(currentRent)
    /\ cachedRent = 0
    /\ extracted = <<>>
    /\ xpc = "rent"
    /\ hooked = FALSE
    /\ persisted = <<>>
    /\ ReclaimParked
    /\ ScanParked
    /\ TrackParked

ExtractNext ==
    \/ FetchRent /\ UNCHANGED <<rvars, svars, tvars, pvars, yvars, zvars, wvars, uvars>>
    \/ ExtractCandidates /\ UNCHANGED <<rvars, svars, tvars, pvars, yvars, zvars, wvars, uvars>>
    \/ WebhookDelivers /\ UNCHANGED <<rvars, svars, tvars, pvars, yvars, zvars, wvars, uvars>>

ExtractSpec == ExtractInit /\ [][ExtractNext]_vars

----------------------------------------------------------------------------
(* The Verifier on its own: every account state, both callers *)

VerifyInit ==
    /\ accountInfo \in Infos
    /\ verdict = NoVerdict
    /\ written = ""
    /\ vpc \in VerifyPaths
    /\ IntervalParked
    /\ LoopParked
    /\ FetchParked
    /\ ExtractParked
    /\ ReclaimParked
    /\ ScanParked
    /\ TrackParked

VerifyNext ==
    \/ Analyze /\ UNCHANGED <<rvars, svars, tvars, pvars, xvars, zvars, wvars, uvars>>
    \/ WriteStatus /\ UNCHANGED <<rvars, svars, tvars, pvars, xvars, zvars, wvars, uvars>>

VerifySpec == VerifyInit /\ [][VerifyNext]_vars

\* isStale holds (forceVerify, or the last scan is older than an hour)
RefreshLoopStarts ==
    /\ wpc \in {"idle", "done"}
    /\ wpc' = "loop"
    /\ batchesProcessed' = 0
    /\ lastBatch' = {}
    /\ UNCHANGED <<everSubmitted, chain, envSteps, tvars, trackFrame>>

\* one pass of the while loop: refreshActiveAccounts, then the two exits
RefreshLoopPass ==
    /\ wpc = "loop"
    /\ batchesProcessed <= RefreshCap + 1
    /\ \E batch \in ActiveBatches(table, LoopLimit), ok \in BOOLEAN :
        LET pks == {r.pubkey : r \in batch}
            verified == AnalyzeAccounts(pks, ok)
        IN /\ table' = IF batch = {} THEN table
                       ELSE UpdateMetadata(table, Updates(verified, RefreshStatus), clock)
           /\ lastBatch' = pks
           /\ everSubmitted' = everSubmitted \cup pks
           /\ batchesProcessed' = batchesProcessed + 1
           /\ wpc' = IF ~HasMore(batch, LoopLimit) \/ CapReached(batchesProcessed + 1)
                     THEN "done" ELSE "loop"
    /\ UNCHANGED <<chain, envSteps, clock, lastOp, sponsoredFunded, trackFrame>>

\* every account has an active row, checked at some time up to now
LoopTables ==
    {{TableRow(a, "active", at[a]) : a \in Accounts} : at \in [Accounts -> 0..MaxClock]}

\* what the ledger holds for an account during the loop: empty and closable,
\* funded, empty under another authority, or closed
LoopChain == {Token(0, Operator), Token(1, Operator), Token(0, Stranger), Absent}

LoopInit ==
    /\ wpc = "idle"
    /\ batchesProcessed = 0
    /\ lastBatch = {}
    /\ everSubmitted = {}
    /\ chain \in [Accounts -> LoopChain]
    /\ table \in LoopTables
    /\ clock = MaxClock
    /\ lastOp = NoOp
    /\ sponsoredFunded = {}
    /\ envSteps = 0
    /\ whitelist = {}
    /\ coolDown = 0
    /\ RunIdle
    /\ ScanParked
    /\ ExtractParked
    /\ VerifyParked
    /\ IntervalParked
    /\ FetchParked

LoopNext ==
    \/ RefreshLoopStarts /\ UNCHANGED <<svars, pvars, xvars, yvars, zvars, uvars>>
    \/ RefreshLoopPass /\ UNCHANGED <<svars, pvars, xvars, yvars, zvars, uvars>>

(* One ledger read on its own: every sequence of answers of the provider *)

FetchInit ==
    /\ answers \in Attempts
    /\ attempt = 0
    /\ lastError = "undefined"
    /\ fetched = "running"
    /\ logged = ""
    /\ VerifyParked
    /\ IntervalParked
    /\ LoopParked
    /\ ExtractParked
    /\ ReclaimParked
    /\ ScanParked
    /\ TrackParked

FetchNext ==
    \/ FetchAttempt /\ UNCHANGED <<rvars, svars, tvars, pvars, xvars, yvars, zvars, wvars>>
    \/ FetchThrows /\ UNCHANGED <<rvars, svars, tvars, pvars, xvars, yvars, zvars, wvars>>
    \/ HandlerLogs /\ UNCHANGED <<rvars, svars, tvars, pvars, xvars, yvars, zvars, wvars>>

FetchSpec == FetchInit /\ [][FetchNext]_vars

LoopSpec == LoopInit /\ [][LoopNext]_vars

\* the loop is run to its end, and the refresh comes round again
LoopFairSpec ==
    /\ LoopSpec
    /\ WF_vars((RefreshLoopStarts \/ RefreshLoopPass) /\ UNCHANGED <<svars, pvars, xvars, yvars, zvars, uvars>>)

IntervalInit ==
    /\ IntervalParked
    /\ LoopParked
    /\ FetchParked
    /\ VerifyParked
    /\ ExtractParked
    /\ ReclaimParked
    /\ ScanParked
    /\ TrackParked

IntervalNext ==
    \/ FirstCycle /\ UNCHANGED <<rvars, svars, tvars, pvars, xvars, yvars, wvars, uvars>>
    \/ SetInterval /\ UNCHANGED <<rvars, svars, tvars, pvars, xvars, yvars, wvars, uvars>>
    \/ TimerFires /\ UNCHANGED <<rvars, svars, tvars, pvars, xvars, yvars, wvars, uvars>>
    \/ ScanReturns /\ UNCHANGED <<rvars, svars, tvars, pvars, xvars, yvars, wvars, uvars>>
    \/ SendAndConfirm /\ UNCHANGED <<rvars, svars, tvars, pvars, xvars, yvars, wvars, uvars>>
    \/ BatchSettles /\ UNCHANGED <<rvars, svars, tvars, pvars, xvars, yvars, wvars, uvars>>
    \/ CycleReturns /\ UNCHANGED <<rvars, svars, tvars, pvars, xvars, yvars, wvars, uvars>>

IntervalSpec == IntervalInit /\ [][IntervalNext]_vars

----------------------------------------------------------------------------
(* updateCheckpoint on its own: every row, every argument *)

ScanStatuses == {"scanning", "complete", "pending"}

\* the rows of scan_checkpoints: cursors name transactions of the history, the
\* oldest one not newer than the newest one
CheckpointRows ==
    {[exists |-> TRUE, oldestSignature |-> w[1], newestSignature |-> w[2],
      oldestSlot |-> Slot(w[1]), newestSlot |-> Slot(w[2]), scanStatus |-> st,
      firstScanComplete |-> c] :
        w \in {x \in (0..MaxTx) \X (0..MaxTx) : x[2] = 0 \/ x[1] <= x[2]},
        st \in ScanStatuses, c \in BOOLEAN}

\* the arguments of updateCheckpoint: any cursors, given or not
PartialUpdates ==
    {Fields(o, n, Slot(o), Slot(n), st, c) :
        o \in 0..MaxTx, n \in 0..MaxTx, st \in {"", "scanning", "complete"},
        c \in BOOLEAN}

\* a call of updateCheckpoint(operator, checkpoint)
UpdateCheckpointCall ==
    /\ \E f \in PartialUpdates : cp' = UpdateCheckpoint(cp, f)
    /\ UNCHANGED <<top, failures, saved, activeScans, pc, loc, worked, arrivedBusy,
                   lastFill>>

CheckpointInit ==
    /\ ExtractParked
    /\ VerifyParked
    /\ IntervalParked
    /\ LoopParked
    /\ FetchParked
    /\ cp \in CheckpointRows
    /\ top = MaxTx
    /\ failures = 0
    /\ saved = {}
    /\ activeScans = {}
    /\ pc = [p \in Procs |-> "idle"]
    /\ loc = [p \in Procs |-> Blank]
    /\ worked = [p \in Procs |-> FALSE]
    /\ arrivedBusy = [p \in Procs |-> FALSE]
    /\ lastFill = NoFill
    /\ ReclaimParked
    /\ TrackParked

CheckpointNext == UpdateCheckpointCall /\ UNCHANGED <<rvars, tvars, pvars, xvars, yvars, zvars, wvars, uvars>>

CheckpointSpec == CheckpointInit /\ [][CheckpointNext]_vars


ScanInit ==
    /\ ExtractParked
    /\ VerifyParked
    /\ IntervalParked
    /\ LoopParked
    /\ FetchParked
    /\ top = MaxTx - 1
    /\ failures = 0
    /\ cp = NoRow
    /\ saved = {}
    /\ activeScans = {}
    /\ pc = [p \in Procs |-> "idle"]
    /\ loc = [p \in Procs |-> Blank]
    /\ worked = [p \in Procs |-> FALSE]
    /\ arrivedBusy = [p \in Procs |-> FALSE]
    /\ lastFill = NoFill
    /\ ReclaimParked
    /\ TrackParked

ScanStep(p) ==
    \/ ScanCall(p)
    \/ ScanContinue(p)
    \/ FullScanRead(p)
    \/ FullScanGuard(p)
    \/ FullScanInit(p)
    \/ FullScanPage(p)
    \/ FullScanFinal(p)
    \/ UpFetch(p)
    \/ UpCheckpoint(p)
    \/ RefreshActive(p)
    \/ RefreshActiveFails(p)

ScanNext ==
    \/ LedgerGrows /\ UNCHANGED <<rvars, tvars, pvars, xvars, yvars, zvars, wvars, uvars>>
    \/ \E p \in Procs : ScanCall(p) /\ UNCHANGED <<rvars, tvars, pvars, xvars, yvars, zvars, wvars, uvars>>
    \/ \E p \in Procs : ScanContinue(p) /\ UNCHANGED <<rvars, tvars, pvars, xvars, yvars, zvars, wvars, uvars>>
    \/ \E p \in Procs : FullScanRead(p) /\ UNCHANGED <<rvars, tvars, pvars, xvars, yvars, zvars, wvars, uvars>>
    \/ \E p \in Procs : FullScanGuard(p) /\ UNCHANGED <<rvars, tvars, pvars, xvars, yvars, zvars, wvars, uvars>>
    \/ \E p \in Procs : FullScanInit(p) /\ UNCHANGED <<rvars, tvars, pvars, xvars, yvars, zvars, wvars, uvars>>
    \/ \E p \in Procs : FullScanPage(p) /\ UNCHANGED <<rvars, tvars, pvars, xvars, yvars, zvars, wvars, uvars>>
    \/ \E p \in Procs : FullScanFinal(p) /\ UNCHANGED <<rvars, tvars, pvars, xvars, yvars, zvars, wvars, uvars>>
    \/ \E p \in Procs : UpFetch(p) /\ UNCHANGED <<rvars, tvars, pvars, xvars, yvars, zvars, wvars, uvars>>
    \/ \E p \in Procs : UpCheckpoint(p) /\ UNCHANGED <<rvars, tvars, pvars, xvars, yvars, zvars, wvars, uvars>>
    \/ \E p \in Procs : RefreshActive(p) /\ UNCHANGED <<rvars, tvars, pvars, xvars, yvars, zvars, wvars, uvars>>
    \/ \E p \in Procs : RefreshActiveFails(p) /\ UNCHANGED <<rvars, tvars, pvars, xvars, yvars, zvars, wvars, uvars>>

ScanSpec == ScanInit /\ [][ScanNext]_vars

\* every call that can take a step eventually takes one
ScanFairSpec == ScanSpec /\ \A p \in Procs : WF_vars(ScanStep(p) /\ UNCHANGED <<rvars, tvars, pvars, xvars, yvars, zvars, wvars, uvars>>)

\* an operator whose first transaction has been scanned to the end, and whose
\* history has grown since
SeamRow == [exists |-> TRUE, oldestSignature |-> 1, newestSignature |-> 1,
            oldestSlot |-> Slot(1), newestSlot |-> Slot(1),
            scanStatus |-> "complete", firstScanComplete |-> TRUE]

UpwardInit ==
    /\ ExtractParked
    /\ VerifyParked
    /\ IntervalParked
    /\ LoopParked
    /\ FetchParked
    /\ top = MaxTx - 1
    /\ failures = 0
    /\ cp = SeamRow
    /\ saved = {}
    /\ activeScans = {}
    /\ pc = [p \in Procs |-> "idle"]
    /\ loc = [p \in Procs |-> Blank]
    /\ worked = [p \in Procs |-> FALSE]
    /\ arrivedBusy = [p \in Procs |-> FALSE]
    /\ lastFill = NoFill
    /\ ReclaimParked
    /\ TrackParked

\* with a row stored, scan() runs updateInBackground; the historical fill it may
\* call returns at its guard
UpwardNext ==
    \/ LedgerGrows /\ UNCHANGED <<rvars, tvars, pvars, xvars, yvars, zvars, wvars, uvars>>
    \/ \E p \in Procs : ScanCall(p) /\ UNCHANGED <<rvars, tvars, pvars, xvars, yvars, zvars, wvars, uvars>>
    \/ \E p \in Procs : ScanContinue(p) /\ UNCHANGED <<rvars, tvars, pvars, xvars, yvars, zvars, wvars, uvars>>
    \/ \E p \in Procs : FullScanRead(p) /\ UNCHANGED <<rvars, tvars, pvars, xvars, yvars, zvars, wvars, uvars>>
    \/ \E p \in Procs : FullScanGuard(p) /\ UNCHANGED <<rvars, tvars, pvars, xvars, yvars, zvars, wvars, uvars>>
    \/ \E p \in Procs : UpFetch(p) /\ UNCHANGED <<rvars, tvars, pvars, xvars, yvars, zvars, wvars, uvars>>
    \/ \E p \in Procs : UpCheckpoint(p) /\ UNCHANGED <<rvars, tvars, pvars, xvars, yvars, zvars, wvars, uvars>>
    \/ \E p \in Procs : RefreshActive(p) /\ UNCHANGED <<rvars, tvars, pvars, xvars, yvars, zvars, wvars, uvars>>
    \/ \E p \in Procs : RefreshActiveFails(p) /\ UNCHANGED <<rvars, tvars, pvars, xvars, yvars, zvars, wvars, uvars>>

UpwardSpec == UpwardInit /\ [][UpwardNext]_vars

----------------------------------------------------------------------------
(* Properties of the Reclaim Engine *)

Mutations == Range(submitted)
Batches == Range(batchLog)
NumBatches == (Len(results) + BATCH_SIZE - 1) \div BATCH_SIZE

\* C1: every account in a submitted closing mutation (atomic batch or single
\* fallback) was seen by the re-fetch of the same call with a token balance of
\* zero and with the operator as its close authority.
C1_SubmittedWereVerified ==
    \A m \in Mutations : \A e \in Range(m.entries) :
        /\ e.kind = "token"
        /\ e.amount = 0
        /\ e.closeAuthority = Operator

C3_WhitelistExcluded ==
    /\ Pubkeys(results) \cap whitelist = {}
    /\ \A m \in Mutations : Pubkeys(m.entries) \cap whitelist = {}

C3_Witness ==
    /\ rpc = "done"
    /\ ~dryRun
    /\ \E m \in Mutations : m.ok
    /\ \E a \in whitelist \cap Range(ids) :
        /\ startStatus[a] = "reclaimable"
        /\ chain[a] = Token(0, Operator)

\* the circuit breaker's condition on a batch, stated apart from the code
OverCeiling(b) == breaker > 0 /\ SumLamports(b) > breaker /\ ~dryRun

\* C4: a batch whose value exceeds the ceiling (ceiling enabled, non-dry-run)
\* has no mutation submitted for it, atomic or single; reclaimBatch returns
\* all its members as failed and they are stored as error; and every batch of
\* the run is processed.
C4_CircuitBreaker ==
    /\ \A m \in Mutations : ~OverCeiling(m.batch)
    /\ \A b \in Batches :
        OverCeiling(b.batch) =>
            /\ b.result = [success |-> 0, failed |-> Len(b.batch), sol |-> 0]
            /\ \A a \in Pubkeys(b.batch) : store[a].status = "error"
    /\ (rpc = "done" /\ ids # <<>>) => Len(batchLog) = NumBatches

C4_Witness ==
    /\ rpc = "done"
    /\ Len(batchLog) = 2
    /\ OverCeiling(batchLog[1].batch)
    /\ ~OverCeiling(batchLog[2].batch)
    /\ \E m \in Mutations : m.ok /\ m.batch = batchLog[2].batch

\* C9: a row whose status is reclaimed has its reclaim signature and its
\* reclaim timestamp set.
C9_ReclaimedHasSignature ==
    \A a \in Accounts :
        store[a].status = "reclaimed" =>
            store[a].reclaim_signature # 0 /\ store[a].reclaimed_at # 0

\* C10: when a non-dry-run call returns, every batch whose atomic submission
\* was confirmed was counted as all successes with the sum of its deposits, and
\* each of its accounts is stored as reclaimed with a mutation reference.
C10_FullLifecycle ==
    rpc = "done" =>
        \A m \in Mutations :
            (m.kind = "batch" /\ m.ok) =>
                /\ \E b \in Batches :
                    /\ b.batch = m.batch
                    /\ b.result = [success |-> Len(m.batch), failed |-> 0,
                                   sol |-> SumLamports(m.batch)]
                /\ \A a \in Pubkeys(m.batch) :
                    /\ store[a].status = "reclaimed"
                    /\ store[a].reclaim_signature # 0

----------------------------------------------------------------------------
(* Properties of the Discovery Engine *)

\* the positions at which a call is inside a cycle: fetching pages, saving
\* accounts or writing the checkpoint, up to the release of the guard
CycleSteps == {"up_fetch", "up_checkpoint", "up_refresh", "full_init", "full_fetch",
               "full_final"}
InCycle(p) ==
    \/ pc[p] \in CycleSteps
    \/ pc[p] \in {"full_read", "full_guard"} /\ loc[p].via = "update"

\* C5: at most one Scan call of the operator is inside a discovery cycle at any
\* time, and a call that found the operator in ACTIVE_SCANS is in no cycle and
\* has fetched no page, written no checkpoint and saved no account.
C5_OneCyclePerOperator ==
    /\ \A p, q \in Procs : (InCycle(p) /\ InCycle(q)) => p = q
    /\ \A p \in Procs : arrivedBusy[p] => (~worked[p] /\ ~InCycle(p))

C5_Witness ==
    \E p, q \in Procs :
        /\ p # q
        /\ pc[q] = "full_fetch"
        /\ lastFill.pages >= 1
        /\ arrivedBusy[p]
        /\ pc[p] = "idle"

\* C6: no write of the checkpoint row raises the slot of the oldest cursor or
\* lowers the slot of the newest cursor.
C6_CheckpointMonotone ==
    [][(cp.exists /\ cp'.exists) =>
          /\ cp.oldestSlot # 0 => cp'.oldestSlot <= cp.oldestSlot
          /\ cp.newestSlot # 0 => cp'.newestSlot >= cp.newestSlot]_vars

\* a historical fill has ended early and the row says the history is not complete
Interrupted ==
    /\ lastFill.over
    /\ lastFill.how \in {"fetch_failed", "limit"}
    /\ cp.exists
    /\ ~cp.firstScanComplete

\* C7: once a historical fill has been interrupted, the Scan calls that follow
\* bring the historical fill to the end of the history.
C7_ResumesToTheEnd == Interrupted ~> (cp.exists /\ cp.firstScanComplete)

\* C8: when a historical fill has ended on a failed page fetch after k >= 1
\* pages, the stored oldest cursor is the last transaction of page k and every
\* candidate of pages 1..k has been handed to saveAccounts.
C8_ProgressPreserved ==
    (lastFill.over /\ lastFill.how = "fetch_failed" /\ lastFill.pages >= 1) =>
        /\ cp.oldestSignature = lastFill.lastTx
        /\ lastFill.extracted \subseteq saved

----------------------------------------------------------------------------
(* Properties of the tracked accounts *)

\* C11: an account that the operator sponsored and that held tokens when the
\* crawl discovered it is, once it is empty with the operator as its close
\* authority, eventually stored as reclaimable by the staleness refreshes
\* (unless it stops being closable first).
C11_FundedSponsoredBecomesReclaimable ==
    \A a \in Tracked :
        (a \in sponsoredFunded /\ Closable(a))
            ~> (StatusOf(table, a) = "reclaimable" \/ ~Closable(a))

\* C12: after a staleness refresh, every account it submitted to the Verifier
\* that no longer exists on chain is stored as closed.
C12_GoneIsStoredClosed ==
    lastOp.op = "refresh" => \A a \in lastOp.gone : StatusOf(table, a) = "closed"

\* the rows without the time of their last write
Unstamped(t) == {[pubkey |-> r.pubkey, status |-> r.status] : r \in t}

\* C14 as stated: an upsert that applies again the candidates of the upsert
\* before it leaves the table exactly as that one left it.
C14_UpsertTwiceSameState ==
    [][lastOp'.repeat => table' = table]_vars

\* C14: an upsert that applies again the candidates of the upsert before it
\* leaves every row as that one left it but for last_checked, and the table
\* holds exactly one row for each candidate's address.
C14_UpsertTwiceSameRows ==
    [][lastOp'.repeat =>
          /\ Unstamped(table') = Unstamped(table)
          /\ Cardinality(table') = Cardinality(table)
          /\ \A c \in lastOp'.cands : Cardinality(RowsOf(table', c.pubkey)) = 1]_vars

\* the same candidates have been upserted twice in a row, the second time
\* later than the first
C14_Witness ==
    /\ lastOp.repeat
    /\ clock > 0
    /\ \A c \in lastOp.cands :
          \E r \in table : r.pubkey = c.pubkey /\ r.status = c.status
                           /\ r.last_checked = clock

----------------------------------------------------------------------------
(* Properties of the checkpoint row *)

\* C13: whatever cursors an update supplies, the stored oldest slot after it is
\* not above the one before and the stored newest slot is not below the one
\* before (a cursor that does not extend the window is ignored).
C13_UpdateNeverShrinks ==
    cp.exists =>
        \A f \in PartialUpdates :
            LET after == UpdateCheckpoint(cp, f)
            IN /\ cp.oldestSlot # 0 => after.oldestSlot <= cp.oldestSlot
               /\ after.newestSlot >= cp.newestSlot

----------------------------------------------------------------------------
(* Properties of dry runs and of the treasury sweep *)

\* C15: a run with dry-run enabled submits no closing mutation and no treasury
\* transfer, leaves every stored status as it was when the run started, and
\* returns as successes the accounts that passed the re-fetch, with the sum of
\* their deposits as the amount.
C15_DryRunChangesNothing ==
    (dryRun /\ rpc # "idle") =>
        /\ submitted = <<>>
        /\ sweep.sent = 0
        /\ \A a \in Accounts : store[a].status = startStatus[a]
        /\ rpc = "done" =>
              ret = [success |-> Len(results), failed |-> 0, sol |-> SumLamports(results)]

\* a dry ReclaimEligible run has returned a would-be success, with a treasury
\* wallet configured and a balance above the floor
C15_Witness ==
    /\ dryRun
    /\ mode = "eligible"
    /\ rpc = "done"
    /\ ret.success > 0
    /\ chain # [a \in Accounts |-> Token(0, Operator)]
    /\ sweep.ran /\ sweep.wallet # ""

\* C17: with a treasury wallet configured, a sweep that finds the balance above
\* TREASURY_MIN_SOL sends what exceeds TREASURY_MIN_SOL, a sweep that finds it
\* at or below sends nothing, and the run returns the totals of reclaimAccounts
\* whether or not the transfer was confirmed.
C17_SweepLeavesFloor ==
    (sweep.ran /\ sweep.wallet # "" /\ ~dryRun) =>
        /\ sweep.balance > TREASURY_MIN_SOL => sweep.sent = sweep.balance - TREASURY_MIN_SOL
        /\ sweep.balance <= TREASURY_MIN_SOL => sweep.sent = 0
        /\ rpc = "done" => ret = totals

\* C16: with a cool-down of N days set, every account that reclaimAllEligible
\* hands to reclaimAccounts became eligible (was stored as reclaimable) at
\* least N days before.
C16_CoolDownRespected ==
    (lastOp.op = "eligible" /\ coolDown > 0) =>
        \A c \in lastOp.cands :
            \A r \in RowsOf(table, c.pubkey) : clock - r.last_checked >= coolDown

----------------------------------------------------------------------------
(* Properties of candidate extraction *)

\* instruction ix creates the associated token account x: [payer, x, owner, mint, ..]
CreatesAccount(ix, x) ==
    /\ ix.programId = ASSOCIATED_TOKEN_PROGRAM_ID
    /\ Len(ix.accounts) >= 4
    /\ ix.accounts[2] = x

CandidatesFor(x) == {k \in DOMAIN extracted : extracted[k].pubkey = x}

\* C18: when the operator paid the fee of the transaction, account X received
\* exactly the current rent-exempt deposit, and an instruction creates X for
\* owner U and mint R, processTransaction returns exactly one candidate for X,
\* and that candidate names U as the owner and R as the mint.
C18_ExtractionComplete ==
    (xpc = "done" /\ tx.feePayer = Operator) =>
        \A i \in DOMAIN tx.accountData, j \in DOMAIN tx.instructions :
            LET x == tx.accountData[i].account
                ix == tx.instructions[j]
            IN  (tx.accountData[i].nativeBalanceChange = currentRent
                 /\ CreatesAccount(ix, x)) =>
                    /\ Cardinality(CandidatesFor(x)) = 1
                    /\ \A k \in CandidatesFor(x) :
                          /\ extracted[k].userWallet = ix.accounts[3]
                          /\ extracted[k].mint = ix.accounts[4]

----------------------------------------------------------------------------
(* Properties of the end of a historical fill *)

\* no transaction of the operator is older than the cursor of call p
HistoryExhausted(p) == HistoryPage(loc[p].before, top) = <<>>

\* C19: the final checkpoint update of a historical fill stores
\* firstScanComplete = true exactly when the fill ended on an empty page with
\* the history exhausted; a fill ended by the cap or by a provider error
\* stores false.
C19_CompleteIffExhausted ==
    [][\A p \in Procs :
          (pc[p] = "full_final" /\ pc'[p] = "idle") =>
              (cp'.firstScanComplete <=>
                  (lastFill.how = "end" /\ HistoryExhausted(p)))]_vars

\* C20: the checkpoint update of the upward fill supplies the newest cursors
\* only, and leaves firstScanComplete and the scan status of the row as they
\* were; and once firstScanComplete is stored true, no step of any later scan
\* cycle stores it false.
C20_UnsuppliedFieldsKept ==
    [][/\ (cp.exists /\ cp.firstScanComplete) => cp'.firstScanComplete
       /\ \A p \in Procs :
             (pc[p] = "up_checkpoint" /\ pc'[p] = "up_refresh") =>
                 /\ cp'.firstScanComplete = cp.firstScanComplete
                 /\ cp'.scanStatus = cp.scanStatus]_vars

----------------------------------------------------------------------------
(* Properties of the upward fill *)

\* the transactions between the seam and the first transaction of the first page
NewerThan(seam, first) == {t \in 1..MaxTx : seam < t /\ t <= first}

\* C21: in an upward fill against a recorded newest signature S, the loop
\* fetches no further page after one that contains S; and when the fill
\* completes, the transactions it has processed are exactly those newer than S,
\* and the newest cursor it stores is the first transaction of its first page.
C21_UpwardFillToTheSeam ==
    [][\A p \in Procs :
          LET S == loc[p].checkpoint.newestSignature
          IN  S # 0 =>
                /\ (pc[p] = "up_fetch" /\ pc'[p] = "up_fetch") =>
                       S \notin Range(loc'[p].lastPage)
                /\ (pc[p] = "up_checkpoint" /\ pc'[p] = "up_refresh"
                     /\ loc[p].first # 0) =>
                       /\ loc[p].relevant = NewerThan(S, loc[p].first)
                       /\ cp'.newestSignature = loc[p].first]_vars

----------------------------------------------------------------------------
(* Properties of the Verifier *)

\* who may close a token account: its close authority when one is set, its
\* owner when none is
HoldsClosingRight(i, who) ==
    IF i.closeAuthorityOption = 1 THEN i.closeAuthority = who ELSE i.owner = who

\* C22: for an existing token account with zero balance the status written from
\* the Verifier's result is reclaimable exactly when the operator may close the
\* account, and locked otherwise; for one with a balance it is neither.
C22_VerifierStatuses ==
    (vpc = "written" /\ accountInfo.exists /\ IsToken(accountInfo)) =>
        IF accountInfo.amount = 0
        THEN /\ written = "reclaimable" <=> HoldsClosingRight(accountInfo, Operator)
             /\ written = "locked" <=> ~HoldsClosingRight(accountInfo, Operator)
        ELSE written \notin {"reclaimable", "locked"}

----------------------------------------------------------------------------
(* Properties of upserts over stored rows *)

\* the statuses that tell more about an account than active does
Informed == {"reclaimable", "locked", "closed", "reclaimed", "error"}

\* C23: an upsert of candidates with status active, as the inbound event handler
\* makes it, leaves the stored status of every account already stored as
\* reclaimable, locked, closed, reclaimed or error as it was.
C23_UpsertNeverRegresses ==
    [][lastOp'.op = "webhook" =>
          \A a \in Tracked :
              StatusOf(table, a) \in Informed =>
                  StatusOf(table', a) = StatusOf(table, a)]_vars

\* ---------------------------------------------------------------------------
\* The fallback loop of reclaimBatch
\* ---------------------------------------------------------------------------

\* the batches of the log whose atomic mutation was submitted and failed
AtomicFailed(b) ==
    \E m \in Mutations : m.kind = "batch" /\ m.batch = b.batch /\ ~m.ok

\* the singles submitted for one account
SinglesFor(pubkey) ==
    {i \in 1..Len(submitted) :
        /\ submitted[i].kind = "single"
        /\ submitted[i].entries[1].pubkey = pubkey}

ConfirmedThenStoreFailed(i) ==
    /\ submitted[i].kind = "batch"
    /\ submitted[i].ok
    /\ \/ rpc = "single" /\ CurrentBatch = submitted[i].batch
       \/ \E b \in Batches : b.batch = submitted[i].batch /\ b.how = "fallback"

\* C25: when the atomic mutation of a batch was confirmed and a store write
\* after it fails, no further closing mutation is submitted for the accounts
\* of the batch, none of them is stored error, and none of them is counted as
\* failed.
C25_ConfirmedBatchLeftAlone ==
    \A i \in 1..Len(submitted) : ConfirmedThenStoreFailed(i) =>
        /\ \A j \in (i + 1)..Len(submitted) : submitted[j].batch # submitted[i].batch
        /\ \A k \in 1..Len(submitted[i].batch) :
              store[submitted[i].batch[k].pubkey].status # "error"
        /\ \A b \in Batches : b.batch = submitted[i].batch => b.result.failed = 0

\* ---------------------------------------------------------------------------
\* What reclaimAccounts returns and what it stored
\* ---------------------------------------------------------------------------

\* the pre-fetched accounts of the run that the store holds as reclaimed
StoredReclaimed ==
    {k \in 1..Len(results) : store[results[k].pubkey].status = "reclaimed"}

RECURSIVE SumOver(_)
SumOver(ks) ==
    IF ks = {} THEN 0
    ELSE LET k == CHOOSE x \in ks : TRUE
         IN results[k].lamports + SumOver(ks \ {k})

\* C26: when a run that submits (not a dry run) has returned, its success
\* count is the number of accounts it stored as reclaimed and its amount is
\* the sum of the pre-fetched deposits of exactly those accounts.
C26_ReturnedMatchesStored ==
    (rpc = "done" /\ ~dryRun /\ pending = {}) =>
        /\ ret.success = Cardinality(StoredReclaimed)
        /\ ret.sol = SumOver(StoredReclaimed)

\* ---------------------------------------------------------------------------
\* Rows stored error, over the polling cycles
\* ---------------------------------------------------------------------------

\* the closing mutations submitted so far that name the account
ClosesNaming(a) == {i \in 1..Len(submitted) : a \in Pubkeys(submitted[i].entries)}

\* the operator's accounts that no whitelist names
NeverWhitelisted == {a \in Accounts \ WhitelistCandidates : StoredOperator(a) = Operator}

\* C27: an account stored error because its close failed (the circuit breaker
\* is off, so nothing else stores error) is attempted again: as long as it
\* stays an empty token account with the operator as close authority, a later
\* cycle submits one more closing mutation naming it.
C27_ErrorRowRetried ==
    \A a \in NeverWhitelisted : \A n \in 1..2 :
        [](( /\ breaker = 0
             /\ store[a].status = "error"
             /\ Cardinality(ClosesNaming(a)) = n )
           => <>(~Closable(a) \/ Cardinality(ClosesNaming(a)) > n))

\* the accounts of the batches the circuit breaker stopped
BreakerMarked == UNION {Pubkeys(b.batch) : b \in {x \in Batches : x.how = "breaker"}}

\* C28: an account that the circuit breaker marked error is not retried on
\* its own: while its stored status is error, no cycle that starts selects
\* it, the refresh leaves its row alone, and no closing mutation names it.
C28_BreakerErrorNotRetried ==
    [][\A a \in BreakerMarked : store[a].status = "error" =>
          /\ ids' # ids => a \notin Range(ids')
          /\ store'[a] = store[a]
          /\ ClosesNaming(a)' = ClosesNaming(a)]_vars

\* a later cycle has run to its end, selecting another account, while the
\* account the breaker marked is still an empty token account that the
\* operator could close
C28_Witness ==
    \E a \in BreakerMarked :
        /\ rpc = "done"
        /\ startStatus[a] = "error"
        /\ store[a].status = "error"
        /\ Closable(a)
        /\ ids # <<>>
        /\ a \notin Range(ids)

\* C30: a reclaimAllEligible run with the operator's key submits closing
\* instructions only for accounts whose stored operator is that operator,
\* also when the store holds rows of another operator.
C30_OnlyOwnRowsSubmitted ==
    \A m \in Mutations : \A a \in Pubkeys(m.entries) : StoredOperator(a) = Operator

\* ---------------------------------------------------------------------------
\* The polling loop
\* ---------------------------------------------------------------------------

AwaitingConfirmation == {c \in Cycles : cycles[c].phase = "awaiting"}

\* C29: the reclaim batches of the operator are strictly sequential: at most
\* one closing mutation is awaiting confirmation at any time, within a run
\* and across the runs of successive polling cycles.
C29_OneMutationInFlight == Cardinality(AwaitingConfirmation) <= 1

\* ---------------------------------------------------------------------------
\* The in-flight guard at the end of a discovery cycle
\* ---------------------------------------------------------------------------

\* C31: whenever a discovery cycle of the operator ends, normally or by a
\* provider error or by a store error during the refresh, the operator is
\* removed from the in-flight set.
C31_GuardReleased ==
    [][\A p \in Procs : (InCycle(p) /\ pc'[p] = "idle") => Operator \notin activeScans']_vars

\* ---------------------------------------------------------------------------
\* The staleness refresh loop
\* ---------------------------------------------------------------------------

\* C32: the refresh loop of one cycle always terminates: a pass whose batch
\* is not full ends it, and so does the pass that takes the counter over the
\* cap, whatever the Verifier answered; no other pass ends it.
C32_RefreshLoopTerminates ==
    /\ [][(wpc = "loop" /\ batchesProcessed' # batchesProcessed) =>
            (wpc' = "done" <=> \/ Cardinality(lastBatch') < LoopLimit
                               \/ batchesProcessed' > RefreshCap)]_vars
    /\ [](batchesProcessed <= RefreshCap + 1)
    /\ (wpc = "loop") ~> (wpc = "done")

\* a loop that the cap ended: its last batch was still full
C32_Witness ==
    /\ wpc = "done"
    /\ batchesProcessed = RefreshCap + 1
    /\ Cardinality(lastBatch) = LoopLimit

\* every tracked token account holds a balance, so the Verifier leaves every
\* row active whether or not its read succeeds
AllFunded == \A a \in Accounts : chain[a].kind = "token" /\ chain[a].amount > 0

\* one active row is older than every other: the query has one answer
UniqueOldest ==
    \E r \in table : \A q \in table \ {r} : r.last_checked < q.last_checked

\* C33: the staleness refresh covers every active account: an account whose
\* row is active is submitted to the Verifier by some later batch, also when
\* the accounts checked before it stay active (here: all of them are funded
\* all the time, and the oldest row is not tied with another).
C33_EveryActiveSubmitted ==
    \A a \in Accounts :
        [](AllFunded /\ UniqueOldest) =>
            ((StatusOf(table, a) = "active")
                ~> (a \in everSubmitted \/ StatusOf(table, a) # "active"))

\* ---------------------------------------------------------------------------
\* What candidate extraction returns
\* ---------------------------------------------------------------------------

\* what the extraction never returns, and the deposit of what it returns
\* measured against a given rent
ExtractionSound(rent) ==
    /\ tx.feePayer # Operator => extracted = <<>>
    /\ \A k \in DOMAIN extracted :
          /\ extracted[k].pubkey # Operator
          /\ extracted[k].pubkey \notin SYSTEM_ADDRESSES
          /\ extracted[k].type \in {"token", "token-2022"}
          /\ Abs(extracted[k].rentPaid - rent) < RentTolerance

\* C34, as stated: no candidate for a transaction another fee payer paid;
\* never the operator, an infrastructure address or an account of no known
\* token kind; every candidate's deposit within the tolerance of the current
\* rent-exempt deposit of the ledger.
C34_SoundAgainstCurrentRent == xpc = "done" => ExtractionSound(currentRent)

\* C34, as the code has it: the deposit is within the tolerance of the rent
\* the Discoverer holds, which is the ledger's when the read succeeded and
\* the built-in 2039280 when it failed.
C34_SoundAgainstCachedRent == xpc = "done" => ExtractionSound(cachedRent)

\* a transaction of the operator with two deposits of the rent, one to an
\* account an ATA creation names and one to an account nothing names, and a
\* deposit of the rent on an infrastructure address: one candidate comes back
C34_Witness ==
    /\ xpc = "done"
    /\ tx.feePayer = Operator
    /\ Len(extracted) = 1
    /\ \E i, j, k \in DOMAIN tx.accountData :
          /\ tx.accountData[i].account = NewAccount
          /\ tx.accountData[j].account = OtherAccount
          /\ tx.accountData[k].account = SYSTEM_PROGRAM_ID
          /\ \A n \in {i, j, k} : tx.accountData[n].nativeBalanceChange = cachedRent

\* the account addresses of a list of candidates
PubkeysOf(cands) == {cands[k].pubkey : k \in DOMAIN cands}

\* C35: for every transaction and operator, the accounts the inbound event
\* handler persists as candidates are the candidates the crawler's extraction
\* returns for that transaction.
C35_HandlerSameAsCrawler ==
    (xpc = "done" /\ hooked) => PubkeysOf(persisted) = PubkeysOf(extracted)

\* ---------------------------------------------------------------------------
\* How a ledger read ends
\* ---------------------------------------------------------------------------

\* C36: a ledger read makes at most three attempts and ends in a response (an
\* empty list for a 404; a 429 is tried again while attempts remain) or in a
\* thrown error value that describes the last failure and that the handler of
\* the calling loop can log.
C36_ReadEndsInResponseOrError ==
    /\ attempt <= Retries
    /\ (fetched = "empty") <=> (attempt > 0 /\ answers[attempt] = "404" /\ fetched # "running")
    /\ (fetched = "running" /\ attempt > 0 /\ attempt < Retries)
          => answers[attempt] \in {"429", "error"}
    /\ fetched = "thrown" => lastError # "undefined"
    /\ logged # "TypeError"

\* ---------------------------------------------------------------------------
\* When scan() with waitForSync returns
\* ---------------------------------------------------------------------------

\* C37: a scan() that waits for the sync returns only after the discovery
\* cycle of the operator has finished: at its return no call is inside a cycle
\* for that operator.
C37_ReturnsAfterCycle ==
    [][\A p \in Procs : (pc[p] # "idle" /\ pc'[p] = "idle") =>
          \A q \in Procs : pc'[q] \notin CycleSteps]_vars

\* ---------------------------------------------------------------------------
\* The changes of a stored status
\* ---------------------------------------------------------------------------

\* the transitions of the state machine, as <<from, to>>
MachineTransitions ==
    {<<"active", "reclaimable">>, <<"active", "locked">>, <<"active", "closed">>,
     <<"reclaimable", "reclaimed">>, <<"reclaimable", "active">>,
     <<"reclaimable", "error">>}

\* C38: every change of the stored status of an account is one of the state
\* machine's transitions: active to reclaimable, locked or closed; reclaimable
\* to reclaimed, active or error.
C38_OnlyMachineTransitions ==
    [][\A a \in Accounts : store'[a].status # store[a].status =>
          <<store[a].status, store'[a].status>> \in MachineTransitions]_vars


====
